---- MODULE Spec2Model ----
(***************************************************************************)
(* A model of mkfs.xfs (mkfs/xfs_mkfs.c): the option table, the option     *)
(* parser with its respecification and conflict checks, the default        *)
(* fill-in, the sector-size / CRC feature validation and the AG geometry   *)
(* solver.                                                                 *)
(*                                                                         *)
(* The program is sequential.  Its state is held in the variables below;   *)
(* every block of main() is a step function on the record of all the       *)
(* variables (State), and an action of the model applies one step          *)
(* function.  A command line is a sequence of suboption writes (argv),     *)
(* chosen in Init together with the device the program runs on (dev).      *)
(*                                                                         *)
(* Numbers.  TLC integers are 32 bit.  All modelled inputs stay below      *)
(* 2^31.  The three subvolume/AG byte sizes that exceed this in practice   *)
(* (-d size, -d agsize, -r size) are held in basic blocks of 512 bytes;    *)
(* the code requires them to be multiples of 512 (XFS_MIN_BLOCKSIZE)       *)
(* anyway, and every use of them is a shift by the block log.              *)
(***************************************************************************)
EXTENDS Integers, Sequences, FiniteSets, TLC

VARIABLES
    argv,       \* the suboption writes not yet consumed by the getopt loop
    consumed,   \* the writes consumed so far (history of the command line)
    cli,        \* positional device given, -N, -K, -q, -f
    dev,        \* the devices the program runs on (topology, sizes)
    pc,         \* position in main()
    err,        \* the error that terminated the run
    code,       \* exit code (-1 while running)
    seen,       \* opts[].subopt_params[].seen
    str_seen,   \* opts[].subopt_params[].str_seen
    value,      \* opts[].subopt_params[].value
    fl,         \* main's flag locals (blflag, bsflag, ...)
    sb_feat,    \* struct sb_feat_args
    xi,         \* libxfs_init_t fields main uses
    ft,         \* struct fs_topology
    geo,        \* main's geometry locals (dblocks, logblocks, ...)
    sb,         \* the in-core superblock mp->m_sb
    cvt        \* a call of cvtnum on the full 64-bit range and its result

vars == <<argv, consumed, cli, dev, pc, err, code, seen, str_seen, value,
          fl, sb_feat, xi, ft, geo, sb, cvt>>

-----------------------------------------------------------------------------
(* Arithmetic helpers *)

RECURSIVE Pow2(_)
Pow2(n) == IF n <= 0 THEN 1 ELSE 2 * Pow2(n - 1)

\* x >> k and x << k on the modelled range
Shr(x, k) == IF k >= 31 THEN 0 ELSE x \div Pow2(k)
Shl(x, k) == x * Pow2(k)

\* v bound to a name in F: a value computed once and used many times
With(v, F(_)) == F(v)

\* the statements F of main() after s, unless s has exited
Then(s, F(_)) == IF s.pc = "exit" THEN s ELSE F(s)

\* the end of a step of main(): control passes to the step p
Goto(s, p) == IF s.pc = "exit" THEN s ELSE [s EXCEPT !.pc = p]

MinOf(S) == CHOOSE x \in S : \A y \in S : x <= y
MAX(a, b) == IF a > b THEN a ELSE b
MIN(a, b) == IF a < b THEN a ELSE b

\* libxfs_highbit32: index of the highest set bit, -1 for 0
RECURSIVE libxfs_highbit32(_)
libxfs_highbit32(v) == IF v <= 0 THEN -1 ELSE 1 + libxfs_highbit32(v \div 2)

\* ispow2: (i & (i - 1)) == 0, which also holds for 0
ispow2(i) == i = 0 \/ Pow2(libxfs_highbit32(i)) = i

-----------------------------------------------------------------------------
(* Program constants *)

SUBOPT_NEEDS_VAL == -1
BBSHIFT == 9
BBSIZE == Pow2(BBSHIFT)
XFS_MIN_BLOCKSIZE_LOG == 9
XFS_MAX_BLOCKSIZE_LOG == 16
XFS_MIN_BLOCKSIZE == Pow2(XFS_MIN_BLOCKSIZE_LOG)
XFS_MAX_BLOCKSIZE == Pow2(XFS_MAX_BLOCKSIZE_LOG)
XFS_DFL_BLOCKSIZE_LOG == 12
XFS_MIN_CRC_BLOCKSIZE == Pow2(10)
XFS_MIN_SECTORSIZE_LOG == 9
XFS_MAX_SECTORSIZE_LOG == 15
XFS_MIN_SECTORSIZE == Pow2(XFS_MIN_SECTORSIZE_LOG)
XFS_MAX_SECTORSIZE == Pow2(XFS_MAX_SECTORSIZE_LOG)
XFS_DINODE_MIN_LOG == 8
XFS_DINODE_MAX_LOG == 11
XFS_DINODE_MIN_SIZE == Pow2(XFS_DINODE_MIN_LOG)
XFS_DINODE_MAX_SIZE == Pow2(XFS_DINODE_MAX_LOG)
XFS_DINODE_DFL_LOG == 8
XFS_DINODE_DFL_CRC_LOG == 9
XFS_MIN_INODE_PERBLOCK == 2
XFS_MIN_REC_DIRSIZE == 12
XFS_INODE_BIG_CLUSTER_SIZE == Pow2(13)
\* the largest number the model represents; stands for UINT_MAX, LLONG_MAX,
\* XFS_MAX_AGNUMBER and XFS_AG_MAX_BYTES/512 as an upper limit of a range
\* check: every modelled input is below all of them
IntMax == 2147483647
\* XFS_AG_MIN_BYTES (16 MiB) in basic blocks
XFS_AG_MIN_BB == Pow2(24 - BBSHIFT)

-----------------------------------------------------------------------------
(* The option table opts[] *)

Subopts ==
    {"B_LOG", "B_SIZE",
     "D_AGCOUNT", "D_FILE", "D_NAME", "D_SIZE", "D_SUNIT", "D_SWIDTH",
     "D_AGSIZE", "D_SU", "D_SW", "D_SECTLOG", "D_SECTSIZE", "D_NOALIGN",
     "D_RTINHERIT", "D_PROJINHERIT", "D_EXTSZINHERIT",
     "I_ALIGN", "I_LOG", "I_MAXPCT", "I_PERBLOCK", "I_SIZE", "I_ATTR",
     "I_PROJID32BIT", "I_SPINODES",
     "L_AGNUM", "L_INTERNAL", "L_SIZE", "L_VERSION", "L_SUNIT", "L_SU",
     "L_DEV", "L_SECTLOG", "L_SECTSIZE", "L_FILE", "L_NAME", "L_LAZYSBCNTR",
     "N_LOG", "N_SIZE", "N_VERSION", "N_FTYPE",
     "R_EXTSIZE", "R_SIZE", "R_DEV", "R_FILE", "R_NAME", "R_NOALIGN",
     "S_LOG", "S_SECTLOG", "S_SIZE", "S_SECTSIZE",
     "M_CRC", "M_FINOBT", "M_UUID", "M_RMAPBT", "M_REFLINK"}

\* the option letter of a suboption: opts[].name
OptName(o) ==
    CASE o \in {"B_LOG", "B_SIZE"} -> "b"
      [] o \in {"D_AGCOUNT", "D_FILE", "D_NAME", "D_SIZE", "D_SUNIT",
                "D_SWIDTH", "D_AGSIZE", "D_SU", "D_SW", "D_SECTLOG",
                "D_SECTSIZE", "D_NOALIGN", "D_RTINHERIT", "D_PROJINHERIT",
                "D_EXTSZINHERIT"} -> "d"
      [] o \in {"I_ALIGN", "I_LOG", "I_MAXPCT", "I_PERBLOCK", "I_SIZE",
                "I_ATTR", "I_PROJID32BIT", "I_SPINODES"} -> "i"
      [] o \in {"L_AGNUM", "L_INTERNAL", "L_SIZE", "L_VERSION", "L_SUNIT",
                "L_SU", "L_DEV", "L_SECTLOG", "L_SECTSIZE", "L_FILE",
                "L_NAME", "L_LAZYSBCNTR"} -> "l"
      [] o \in {"N_LOG", "N_SIZE", "N_VERSION", "N_FTYPE"} -> "n"
      [] o \in {"R_EXTSIZE", "R_SIZE", "R_DEV", "R_FILE", "R_NAME",
                "R_NOALIGN"} -> "r"
      [] o \in {"S_LOG", "S_SECTLOG", "S_SIZE", "S_SECTSIZE"} -> "s"
      [] OTHER -> "m"

\* struct subopt_conflict: an unconditional entry and a value-testing entry
U(p) == [subopt |-> p, test_values |-> FALSE, invalid_value |-> 0, at_value |-> 0]
T(p, inv, at) == [subopt |-> p, test_values |-> TRUE, invalid_value |-> inv, at_value |-> at]

\* struct subopt_param (the statically initialised members)
SP(cf, minv, maxv, flagv, conv, p2) ==
    [conflicts |-> cf, minval |-> minv, maxval |-> maxv, flagval |-> flagv,
     convert |-> conv, is_power_2 |-> p2]

NV == SUBOPT_NEEDS_VAL

opts ==
    [o \in Subopts |->
     CASE o = "B_LOG" -> SP(<<U("B_SIZE")>>, XFS_MIN_BLOCKSIZE_LOG, XFS_MAX_BLOCKSIZE_LOG, NV, FALSE, FALSE)
       [] o = "B_SIZE" -> SP(<<U("B_LOG")>>, XFS_MIN_BLOCKSIZE, XFS_MAX_BLOCKSIZE, NV, TRUE, TRUE)
       [] o = "D_AGCOUNT" -> SP(<<U("D_AGSIZE")>>, 1, IntMax, NV, FALSE, FALSE)
       [] o = "D_FILE" -> SP(<<>>, 0, 1, 1, FALSE, FALSE)
       [] o = "D_NAME" -> SP(<<>>, 0, 0, NV, FALSE, FALSE)
       [] o = "D_SIZE" -> SP(<<>>, XFS_AG_MIN_BB, IntMax, NV, TRUE, FALSE)
       [] o = "D_SUNIT" -> SP(<<U("D_NOALIGN"), U("D_SU"), U("D_SW")>>, 0, IntMax, NV, FALSE, FALSE)
       [] o = "D_SWIDTH" -> SP(<<U("D_NOALIGN"), U("D_SU"), U("D_SW")>>, 0, IntMax, NV, FALSE, FALSE)
       [] o = "D_AGSIZE" -> SP(<<U("D_AGCOUNT")>>, XFS_AG_MIN_BB, IntMax, NV, TRUE, FALSE)
       [] o = "D_SU" -> SP(<<U("D_NOALIGN"), U("D_SUNIT"), U("D_SWIDTH")>>, 0, IntMax, NV, TRUE, FALSE)
       [] o = "D_SW" -> SP(<<U("D_NOALIGN"), U("D_SUNIT"), U("D_SWIDTH")>>, 0, IntMax, NV, FALSE, FALSE)
       [] o = "D_SECTLOG" -> SP(<<U("D_SECTSIZE")>>, XFS_MIN_SECTORSIZE_LOG, XFS_MAX_SECTORSIZE_LOG, NV, FALSE, FALSE)
       [] o = "D_SECTSIZE" -> SP(<<U("D_SECTLOG")>>, XFS_MIN_SECTORSIZE, XFS_MAX_SECTORSIZE, NV, TRUE, TRUE)
       [] o = "D_NOALIGN" -> SP(<<U("D_SU"), U("D_SW"), U("D_SUNIT"), U("D_SWIDTH")>>, 0, 1, 1, FALSE, FALSE)
       [] o = "D_RTINHERIT" -> SP(<<>>, 0, 1, 1, FALSE, FALSE)
       [] o = "D_PROJINHERIT" -> SP(<<>>, 0, IntMax, NV, FALSE, FALSE)
       [] o = "D_EXTSZINHERIT" -> SP(<<>>, 0, IntMax, NV, FALSE, FALSE)
       [] o = "I_ALIGN" -> SP(<<T("M_CRC", 1, 0)>>, 0, 1, 1, FALSE, FALSE)
       [] o = "I_LOG" -> SP(<<U("I_PERBLOCK"), U("I_SIZE")>>, XFS_DINODE_MIN_LOG, XFS_DINODE_MAX_LOG, NV, FALSE, FALSE)
       [] o = "I_MAXPCT" -> SP(<<>>, 0, 100, NV, FALSE, FALSE)
       [] o = "I_PERBLOCK" -> SP(<<U("I_LOG"), U("I_SIZE")>>, XFS_MIN_INODE_PERBLOCK, XFS_MAX_BLOCKSIZE \div XFS_DINODE_MIN_SIZE, NV, FALSE, TRUE)
       [] o = "I_SIZE" -> SP(<<U("I_PERBLOCK"), U("I_LOG")>>, XFS_DINODE_MIN_SIZE, XFS_DINODE_MAX_SIZE, NV, FALSE, TRUE)
       [] o = "I_ATTR" -> SP(<<T("M_CRC", 1, 1)>>, 0, 2, NV, FALSE, FALSE)
       [] o = "I_PROJID32BIT" -> SP(<<T("M_CRC", 1, 0)>>, 0, 1, 1, FALSE, FALSE)
       [] o = "I_SPINODES" -> SP(<<T("M_CRC", 0, 1)>>, 0, 1, 1, FALSE, FALSE)
       [] o = "L_AGNUM" -> SP(<<U("L_DEV"), U("L_NAME")>>, 0, IntMax, NV, FALSE, FALSE)
       [] o = "L_INTERNAL" -> SP(<<U("L_FILE"), U("L_DEV"), U("L_NAME")>>, 0, 1, 1, FALSE, FALSE)
       [] o = "L_SIZE" -> SP(<<>>, 2 * Pow2(20), Pow2(30) + (Pow2(30) - 10 * Pow2(20)), NV, TRUE, FALSE)
       [] o = "L_VERSION" -> SP(<<T("M_CRC", 1, 1)>>, 1, 2, NV, FALSE, FALSE)
       [] o = "L_SUNIT" -> SP(<<U("L_SU")>>, 1, Pow2(18 - BBSHIFT), NV, FALSE, FALSE)
       [] o = "L_SU" -> SP(<<U("L_SUNIT")>>, BBSIZE, Pow2(18), NV, TRUE, FALSE)
       [] o = "L_DEV" -> SP(<<U("L_AGNUM"), U("L_INTERNAL")>>, 0, 0, NV, FALSE, FALSE)
       [] o = "L_SECTLOG" -> SP(<<U("L_SECTSIZE")>>, XFS_MIN_SECTORSIZE_LOG, XFS_MAX_SECTORSIZE_LOG, NV, FALSE, FALSE)
       [] o = "L_SECTSIZE" -> SP(<<U("L_SECTLOG")>>, XFS_MIN_SECTORSIZE, XFS_MAX_SECTORSIZE, NV, TRUE, TRUE)
       [] o = "L_FILE" -> SP(<<U("L_INTERNAL")>>, 0, 1, 1, FALSE, FALSE)
       [] o = "L_NAME" -> SP(<<U("L_AGNUM"), U("L_INTERNAL")>>, 0, 0, NV, FALSE, FALSE)
       [] o = "L_LAZYSBCNTR" -> SP(<<T("M_CRC", 1, 0)>>, 0, 1, 1, FALSE, FALSE)
       [] o = "N_LOG" -> SP(<<U("N_SIZE")>>, XFS_MIN_REC_DIRSIZE, XFS_MAX_BLOCKSIZE_LOG, NV, FALSE, FALSE)
       [] o = "N_SIZE" -> SP(<<U("N_LOG")>>, Pow2(XFS_MIN_REC_DIRSIZE), XFS_MAX_BLOCKSIZE, NV, TRUE, TRUE)
       [] o = "N_VERSION" -> SP(<<>>, 2, 2, NV, FALSE, FALSE)
       [] o = "N_FTYPE" -> SP(<<T("M_CRC", 1, 0)>>, 0, 1, 1, FALSE, FALSE)
       [] o = "R_EXTSIZE" -> SP(<<>>, Pow2(12), Pow2(30), NV, TRUE, FALSE)
       [] o = "R_SIZE" -> SP(<<>>, 0, IntMax, NV, TRUE, FALSE)
       [] o = "R_DEV" -> SP(<<U("M_RMAPBT")>>, 0, 0, NV, FALSE, FALSE)
       [] o = "R_FILE" -> SP(<<>>, 0, 1, 1, FALSE, FALSE)
       [] o = "R_NAME" -> SP(<<U("M_RMAPBT")>>, 0, 0, NV, FALSE, FALSE)
       [] o = "R_NOALIGN" -> SP(<<>>, 0, 1, 1, FALSE, FALSE)
       [] o = "S_LOG" -> SP(<<U("S_SIZE"), U("S_SECTSIZE")>>, XFS_MIN_SECTORSIZE_LOG, XFS_MAX_SECTORSIZE_LOG, NV, FALSE, FALSE)
       [] o = "S_SECTLOG" -> SP(<<U("S_SIZE"), U("S_SECTSIZE")>>, XFS_MIN_SECTORSIZE_LOG, XFS_MAX_SECTORSIZE_LOG, NV, FALSE, FALSE)
       [] o = "S_SIZE" -> SP(<<U("S_LOG"), U("S_SECTLOG")>>, XFS_MIN_SECTORSIZE, XFS_MAX_SECTORSIZE, NV, TRUE, TRUE)
       [] o = "S_SECTSIZE" -> SP(<<U("S_LOG"), U("S_SECTLOG")>>, XFS_MIN_SECTORSIZE, XFS_MAX_SECTORSIZE, NV, TRUE, TRUE)
       [] o = "M_CRC" -> SP(<<T("L_VERSION", 1, 1), T("I_ALIGN", 0, 1),
                              T("I_PROJID32BIT", 0, 1), T("I_ATTR", 1, 1),
                              T("L_LAZYSBCNTR", 0, 1), T("M_FINOBT", 1, 0),
                              T("M_RMAPBT", 1, 0), T("M_REFLINK", 1, 0),
                              T("I_SPINODES", 1, 0), T("N_FTYPE", 0, 1)>>, 0, 1, 1, FALSE, FALSE)
       [] o = "M_FINOBT" -> SP(<<T("M_CRC", 0, 1)>>, 0, 1, 1, FALSE, FALSE)
       [] o = "M_UUID" -> SP(<<>>, 0, 0, NV, FALSE, FALSE)
       [] o = "M_RMAPBT" -> SP(<<T("M_CRC", 0, 1), U("R_NAME"), U("R_DEV")>>, 0, 1, 0, FALSE, FALSE)
       [] OTHER -> SP(<<T("M_CRC", 0, 1)>>, 0, 1, 0, FALSE, FALSE)]

\* the statically initialised .value members (all 0 but -l internal)
\* the values with the block and sector size defaults already in place
InitialValueDefaults ==
    [o \in Subopts |->
        CASE o = "L_INTERNAL" -> 1
          [] o = "B_SIZE" -> 4096
          [] o = "D_SECTSIZE" -> 512
          [] OTHER -> 0]
InitialValue == [o \in Subopts |-> IF o = "L_INTERNAL" THEN 1 ELSE 0]

\* suboptions whose byte value the model holds in basic blocks
SizeInBB == {"D_SIZE", "D_AGSIZE", "R_SIZE"}

-----------------------------------------------------------------------------
(* Termination: usage() and the other error exits all end with exit(1) *)

Err(k, o, p, i) == [kind |-> k, subopt |-> o, peer |-> p, entry |-> i]
NoErr == Err("none", "none", "none", 0)

usage(s, e) == [s EXCEPT !.pc = "exit", !.err = e, !.code = 1]
Exited(s) == s.pc = "exit"

respec(s, o) == usage(s, Err("Respecified", o, o, 0))
reqval(s, o) == usage(s, Err("RequiredValueMissing", o, o, 0))
illegal_option(s, o, k) == usage(s, Err(k, o, o, 0))
conflict(s, o, p) == usage(s, Err("Conflict", o, p, 0))
\* the conflict named by entry i of the conflict list cs of o
print_conflict_struct(s, o, cs, i) ==
    usage(s, Err("Conflict", o, cs[i].subopt, i))

-----------------------------------------------------------------------------
(* Conflicts and respecification: check_opt, check_opt_value *)

get_conf_val(s, o) == s.value[o]
set_conf_val(s, o, v) == [s EXCEPT !.value[o] = v]

\* the peer of a conflict entry has been specified
peer_seen_never(s, p) == FALSE
peer_seen(s, p) == s.seen[p] \/ s.str_seen[p]

\* the entries a conflict loop visits: it leaves the list at the first
\* entry whose test_values is not the one the loop handles
scanned(cs, tv) ==
    With({i \in 1..Len(cs) : cs[i].test_values # tv}, LAMBDA stops :
        IF stops = {} THEN 1..Len(cs) ELSE 1..(MinOf(stops) - 1))

check_opt(s, o, str) ==
    With(IF str THEN s.str_seen[o] ELSE s.seen[o], LAMBDA again :
    With(
        IF str THEN [s EXCEPT !.str_seen[o] = TRUE]
               ELSE [s EXCEPT !.seen[o] = TRUE]
    , LAMBDA s1 :
    With(opts[o].conflicts, LAMBDA cs :
    With({i \in scanned(cs, FALSE) : peer_seen(s1, cs[i].subopt)}, LAMBDA hits :
        IF again THEN respec(s, o)
        ELSE IF hits # {} THEN print_conflict_struct(s1, o, cs, MinOf(hits))
        ELSE s1))))

check_opt_value(s, o, c) ==
    With(opts[o].conflicts, LAMBDA cs :
    With(
        {i \in scanned(cs, TRUE) :
            /\ peer_seen(s, cs[i].subopt)
            /\ get_conf_val(s, cs[i].subopt) = cs[i].invalid_value
            /\ c = cs[i].at_value}
    , LAMBDA hits :
        IF hits # {} THEN print_conflict_struct(s, o, cs, MinOf(hits)) ELSE s))

-----------------------------------------------------------------------------
(* Values: a suboption's text is bare (no "=value"), a number with an      *)
(* optional one-letter suffix, or some other text                          *)

Bare == [k |-> "bare", n |-> 0, sfx |-> ""]
Num(n) == [k |-> "num", n |-> n, sfx |-> ""]
NumS(n, x) == [k |-> "num", n |-> n, sfx |-> x]
Text(n) == [k |-> "text", n |-> n, sfx |-> ""]

\* the text "ci" of -n version=ci
IsCi(str) == str.k = "text" /\ str.n = 1

\* the factor of a unit suffix, as a power of 1024
SuffixPower(x) ==
    CASE x = "k" -> 1 [] x = "m" -> 2 [] x = "g" -> 3 [] x = "t" -> 4
      [] x = "p" -> 5 [] x = "e" -> 6 [] OTHER -> 0

\* n * 1024^p >> sh, for the results the model can hold
Scaled(n, p, sh) ==
    IF 10 * p >= sh THEN n * Pow2(10 * p - sh) ELSE n \div Pow2(sh - 10 * p)

\* cvtnum; sh is 0, or BBSHIFT for the values the model holds in basic
\* blocks.  ret is "OK", "EINVAL", "ERANGE", or "usage" where cvtnum itself
\* terminates the program
cvtnum(blksize, sectsize, str, sh) ==
    IF str.k # "num" THEN [ret |-> "EINVAL", val |-> 0]
    ELSE IF str.sfx = "" THEN [ret |-> "OK", val |-> Shr(str.n, sh)]
    ELSE IF str.sfx = "b" THEN
        IF blksize = 0 THEN [ret |-> "usage", val |-> 0]
        ELSE IF str.n * blksize < str.n \/ str.n * blksize < blksize
             THEN [ret |-> "ERANGE", val |-> 0]
        ELSE [ret |-> "OK", val |-> Shr(str.n * blksize, sh)]
    ELSE IF str.sfx = "s" THEN
        IF sectsize = 0 THEN [ret |-> "usage", val |-> 0]
        ELSE IF str.n * sectsize < str.n \/ str.n * sectsize < sectsize
             THEN [ret |-> "ERANGE", val |-> 0]
        ELSE [ret |-> "OK", val |-> Shr(str.n * sectsize, sh)]
    ELSE IF SuffixPower(str.sfx) = 0 THEN [ret |-> "EINVAL", val |-> 0]
    ELSE IF Scaled(str.n, SuffixPower(str.sfx), sh) < Shr(str.n, sh)
         THEN [ret |-> "ERANGE", val |-> 0]
    ELSE [ret |-> "OK", val |-> Scaled(str.n, SuffixPower(str.sfx), sh)]

\* uint64_t values beyond the range of the model: eight limbs of eight
\* bits, the lowest first
U64(n) ==
    <<n % 256, Shr(n, 8) % 256, Shr(n, 16) % 256, Shr(n, 24) % 256, 0, 0, 0, 0>>
\* a < b
Lt64(a, b) == \E i \in 1..8 : a[i] < b[i] /\ \A j \in (i + 1)..8 : a[j] = b[j]
\* the limbs of x * f from limb i on, with the carry c coming in
RECURSIVE MulFrom(_, _, _, _)
MulFrom(x, f, i, c) ==
    IF i > 8 THEN <<>>
    ELSE <<(x[i] * f + c) % 256>> \o MulFrom(x, f, i + 1, (x[i] * f + c) \div 256)
\* (uint64_t)(x * f), for f up to 2^16
Mul64(x, f) == MulFrom(x, f, 1, 0)
\* x with "i *= 1024LL" applied c times
RECURSIVE Times1024(_, _)
Times1024(x, c) == IF c = 0 THEN x ELSE Times1024(Mul64(x, 1024), c - 1)

\* cvtnum on the full range of uint64_t: i is what strtoull returns for
\* the digits of the string and sfx what follows them
cvtnum_u64(blksize, sectsize, i, sfx) ==
    IF sfx = "" THEN [ret |-> "OK", val |-> i]
    ELSE IF sfx = "b" THEN
        IF blksize = 0 THEN [ret |-> "usage", val |-> U64(0)]
        ELSE IF Lt64(Mul64(i, blksize), i) \/ Lt64(Mul64(i, blksize), U64(blksize))
             THEN [ret |-> "ERANGE", val |-> Mul64(i, blksize)]
        ELSE [ret |-> "OK", val |-> Mul64(i, blksize)]
    ELSE IF sfx = "s" THEN
        IF sectsize = 0 THEN [ret |-> "usage", val |-> U64(0)]
        ELSE IF Lt64(Mul64(i, sectsize), i) \/ Lt64(Mul64(i, sectsize), U64(sectsize))
             THEN [ret |-> "ERANGE", val |-> Mul64(i, sectsize)]
        ELSE [ret |-> "OK", val |-> Mul64(i, sectsize)]
    ELSE IF SuffixPower(sfx) = 0 THEN [ret |-> "EINVAL", val |-> U64(0)]
    ELSE IF Lt64(Times1024(i, SuffixPower(sfx)), i)
         THEN [ret |-> "ERANGE", val |-> Times1024(i, SuffixPower(sfx))]
    ELSE [ret |-> "OK", val |-> Times1024(i, SuffixPower(sfx))]

\* strtoull with the "no trailing garbage" test of getnum
strtoull_strict(str) ==
    IF str.k = "num" /\ str.sfx = "" THEN [ret |-> "OK", val |-> str.n]
    ELSE [ret |-> "EINVAL", val |-> 0]

BBShiftOf(o) == IF o \in SizeInBB THEN BBSHIFT ELSE 0

\* getnum: the state after the call and the number returned
getnum(s, o, str) ==
    With(opts[o], LAMBDA sp :
    With(check_opt(s, o, FALSE), LAMBDA s1 :
    With(
        IF sp.convert
        THEN cvtnum(get_conf_val(s1, "B_SIZE"),
                    get_conf_val(s1, "D_SECTSIZE"), str, BBShiftOf(o))
        ELSE strtoull_strict(str)
    , LAMBDA r :
    With(check_opt_value(s1, o, r.val), LAMBDA s2 :
        IF Exited(s1) THEN [s |-> s1, c |-> 0]
        ELSE IF str.k = "bare" THEN
            IF sp.flagval = SUBOPT_NEEDS_VAL
            THEN [s |-> reqval(s1, o), c |-> 0]
            ELSE [s |-> s1, c |-> sp.flagval]
        ELSE IF sp.minval = 0 /\ sp.maxval = 0
            THEN [s |-> usage(s1, Err("UndefinedRange", o, o, 0)), c |-> 0]
        ELSE IF r.ret = "usage"
            THEN [s |-> usage(s1, Err("UnitUnknown", o, o, 0)), c |-> 0]
        ELSE IF r.ret # "OK"
            THEN [s |-> illegal_option(s1, o, "ParseSyntax"), c |-> 0]
        ELSE IF Exited(s2) THEN [s |-> s2, c |-> 0]
        ELSE IF r.val < sp.minval \/ r.val > sp.maxval
            THEN [s |-> illegal_option(s2, o, "RangeViolation"), c |-> 0]
        ELSE IF sp.is_power_2 /\ ~ispow2(r.val)
            THEN [s |-> illegal_option(s2, o, "PowerOfTwoViolation"), c |-> 0]
        ELSE [s |-> s2, c |-> r.val]))))

\* getstr: the state after the call
getstr(s, o, str) ==
    With(check_opt(s, o, TRUE), LAMBDA s1 :
        IF Exited(s1) THEN s1
        ELSE IF str.k = "bare" THEN reqval(s1, o)
        ELSE s1)

parse_conf_val(s, o, str) ==
    With(getnum(s, o, str), LAMBDA r :
        IF Exited(r.s) THEN r ELSE [s |-> set_conf_val(r.s, o, r.c), c |-> r.c])

-----------------------------------------------------------------------------
(* The getopt loop of main(): one suboption per step *)

SetFlag(s, f) == [s EXCEPT !.fl[f] = TRUE]

\* a case that only parses: r is the result of parse_conf_val, then the
\* flag local of the case (if any)
ParseAndFlag(r, f) ==
    IF Exited(r.s) \/ f = "" THEN r.s ELSE SetFlag(r.s, f)

\* <name>log=: r parsed, store 1 << tmp in the size suboption, set the flag
ParseLog(r, size, f) ==
    IF Exited(r.s) THEN r.s
    ELSE SetFlag(set_conf_val(r.s, size, Shl(1, r.c)), f)

\* <name>size=: r parsed, store the highest bit in the log suboption, flag
ParseSize(r, log, f) ==
    IF Exited(r.s) THEN r.s
    ELSE SetFlag(set_conf_val(r.s, log, libxfs_highbit32(r.c)), f)

SetAll(s, O, v) ==
    [s EXCEPT !.value = [o \in Subopts |-> IF o \in O THEN v ELSE @[o]]]

case_b(s, w) ==
    With(parse_conf_val(s, w.opt, w.str), LAMBDA r :
        IF w.opt = "B_LOG" THEN ParseLog(r, "B_SIZE", "blflag")
        ELSE ParseSize(r, "B_LOG", "bsflag"))

case_d(s, w) ==
    With(parse_conf_val(s, w.opt, w.str), LAMBDA r :
    With(getstr(s, "D_NAME", w.str), LAMBDA g :
        CASE w.opt = "D_AGCOUNT" -> ParseAndFlag(r, "daflag")
          [] w.opt = "D_AGSIZE" -> ParseAndFlag(r, "dasize")
          [] w.opt = "D_FILE" ->
                IF Exited(r.s) THEN r.s ELSE [r.s EXCEPT !.xi.disfile = r.c]
          [] w.opt = "D_NAME" ->
                IF Exited(g) THEN g
                ELSE set_conf_val([g EXCEPT !.xi.dname = TRUE], "D_NAME", 1)
          [] w.opt = "D_SECTLOG" ->
                IF Exited(r.s) THEN r.s
                ELSE SetFlag(
                       SetAll(SetAll(r.s, {"S_LOG", "S_SECTLOG"}, r.c),
                              {"D_SECTSIZE", "S_SECTSIZE", "S_SIZE"},
                              Shl(1, r.c)),
                       "slflag")
          [] w.opt = "D_SECTSIZE" ->
                IF Exited(r.s) THEN r.s
                ELSE SetFlag(
                       SetAll(SetAll(r.s, {"S_SIZE", "S_SECTSIZE"}, r.c),
                              {"D_SECTLOG", "S_LOG", "S_SECTLOG"},
                              libxfs_highbit32(r.c)),
                       "ssflag")
          [] OTHER -> r.s))

case_i(s, w) ==
    With(parse_conf_val(s, w.opt, w.str), LAMBDA r :
    With(getnum(s, "I_PROJID32BIT", w.str), LAMBDA n :
        CASE w.opt = "I_ALIGN" ->
                IF Exited(r.s) THEN r.s
                ELSE [r.s EXCEPT !.sb_feat.inode_align = (r.c # 0)]
          [] w.opt = "I_LOG" -> ParseLog(r, "I_SIZE", "ilflag")
          [] w.opt = "I_MAXPCT" -> ParseAndFlag(r, "imflag")
          [] w.opt = "I_PERBLOCK" -> ParseAndFlag(r, "ipflag")
          [] w.opt = "I_SIZE" -> ParseSize(r, "I_LOG", "isflag")
          [] w.opt = "I_ATTR" ->
                IF Exited(r.s) THEN r.s
                ELSE [r.s EXCEPT !.sb_feat.attr_version = r.c]
          [] w.opt = "I_PROJID32BIT" ->
                IF Exited(n.s) THEN n.s
                ELSE set_conf_val([n.s EXCEPT !.sb_feat.projid16bit = (n.c = 0)],
                                  "I_PROJID32BIT", IF n.c = 0 THEN 1 ELSE 0)
          [] OTHER ->
                IF Exited(r.s) THEN r.s
                ELSE [r.s EXCEPT !.sb_feat.spinodes = r.c]))

case_l(s, w) ==
    With(parse_conf_val(s, w.opt, w.str), LAMBDA r :
    With(getstr(s, "L_NAME", w.str), LAMBDA g :
        CASE w.opt = "L_AGNUM" -> ParseAndFlag(r, "laflag")
          [] w.opt = "L_FILE" ->
                IF Exited(r.s) THEN r.s ELSE [r.s EXCEPT !.xi.lisfile = r.c]
          [] w.opt = "L_INTERNAL" -> ParseAndFlag(r, "liflag")
          [] w.opt = "L_SU" -> ParseAndFlag(r, "lsuflag")
          [] w.opt = "L_SUNIT" -> ParseAndFlag(r, "lsunitflag")
          [] w.opt \in {"L_NAME", "L_DEV"} ->
                IF Exited(g) THEN g
                ELSE SetAll(set_conf_val(
                              SetFlag([g EXCEPT !.xi.logname = TRUE], "ldflag"),
                              "L_INTERNAL", 0),
                            {"L_NAME", "L_DEV"}, 1)
          [] w.opt = "L_VERSION" ->
                IF Exited(r.s) THEN r.s
                ELSE SetFlag([r.s EXCEPT !.sb_feat.log_version = r.c], "lvflag")
          [] w.opt = "L_SECTLOG" -> ParseLog(r, "L_SECTSIZE", "lslflag")
          [] w.opt = "L_SECTSIZE" -> ParseSize(r, "L_SECTLOG", "lssflag")
          [] w.opt = "L_LAZYSBCNTR" ->
                IF Exited(r.s) THEN r.s
                ELSE [r.s EXCEPT !.sb_feat.lazy_sb_counters = (r.c # 0)]
          [] OTHER -> r.s))

case_m(s, w) ==
    With(parse_conf_val(s, w.opt, w.str), LAMBDA r :
        CASE w.opt = "M_CRC" ->
                IF Exited(r.s) THEN r.s
                ELSE [r.s EXCEPT !.sb_feat.crcs_enabled = (r.c # 0),
                                 !.sb_feat.dirftype = (r.c # 0) \/ @]
          [] w.opt = "M_FINOBT" ->
                IF Exited(r.s) THEN r.s
                ELSE [r.s EXCEPT !.sb_feat.finobt = r.c]
          [] w.opt = "M_UUID" ->
                IF w.str.k = "bare" THEN reqval(s, "M_UUID")
                ELSE IF w.str.k # "text"
                     THEN illegal_option(s, "M_UUID", "ParseSyntax")
                ELSE set_conf_val(s, "M_UUID", 1)
          [] w.opt = "M_RMAPBT" ->
                IF Exited(r.s) THEN r.s
                ELSE [r.s EXCEPT !.sb_feat.rmapbt = (r.c # 0)]
          [] OTHER ->
                IF Exited(r.s) THEN r.s
                ELSE [r.s EXCEPT !.sb_feat.reflink = (r.c # 0)])

case_n(s, w) ==
    With(parse_conf_val(s, w.opt, w.str), LAMBDA r :
    With(getstr(s, "N_VERSION", w.str), LAMBDA g :
    With(getnum(g, "N_VERSION", w.str), LAMBDA n :
        CASE w.opt = "N_LOG" -> ParseLog(r, "N_SIZE", "nlflag")
          [] w.opt = "N_SIZE" -> ParseSize(r, "N_LOG", "nsflag")
          [] w.opt = "N_VERSION" ->
                IF Exited(g) THEN g
                ELSE IF IsCi(w.str)
                     THEN set_conf_val(
                            SetFlag([g EXCEPT !.sb_feat.nci = TRUE], "nvflag"),
                            "N_VERSION", g.sb_feat.dir_version)
                ELSE IF Exited(n.s) THEN n.s
                ELSE set_conf_val(
                       SetFlag([n.s EXCEPT !.sb_feat.dir_version = n.c], "nvflag"),
                       "N_VERSION", n.c)
          [] OTHER ->
                IF Exited(r.s) THEN r.s
                ELSE [r.s EXCEPT !.sb_feat.dirftype = (r.c # 0)])))

case_r(s, w) ==
    With(parse_conf_val(s, w.opt, w.str), LAMBDA r :
    With(getstr(s, "R_NAME", w.str), LAMBDA g :
        CASE w.opt \in {"R_NAME", "R_DEV"} ->
                IF Exited(g) THEN g
                ELSE SetAll([g EXCEPT !.xi.rtname = TRUE], {"R_NAME", "R_DEV"}, 1)
          [] w.opt = "R_FILE" ->
                IF Exited(r.s) THEN r.s ELSE [r.s EXCEPT !.xi.risfile = r.c]
          [] OTHER -> r.s))

\* -s log / -s sectlog are parsed as S_SECTLOG, -s size / -s sectsize as
\* S_SECTSIZE
case_s(s, w) ==
    With(w.opt \in {"S_LOG", "S_SECTLOG"}, LAMBDA islog :
    With(parse_conf_val(s, IF islog THEN "S_SECTLOG" ELSE "S_SECTSIZE", w.str),
         LAMBDA r :
        IF islog THEN
            IF s.fl.lssflag THEN conflict(s, "S_SECTSIZE", "S_SECTLOG")
            ELSE IF Exited(r.s) THEN r.s
            ELSE SetFlag(SetFlag(
                   set_conf_val(
                     SetAll(SetAll(r.s, {"S_LOG", "D_SECTLOG", "L_SECTLOG"}, r.c),
                            {"D_SECTSIZE", "S_SIZE", "S_SECTSIZE"}, Shl(1, r.c)),
                     "L_SECTSIZE", r.c),
                   "lslflag"), "slflag")
        ELSE
            IF s.fl.lslflag THEN conflict(s, "S_SECTLOG", "S_SECTSIZE")
            ELSE IF Exited(r.s) THEN r.s
            ELSE SetFlag(SetFlag(
                   SetAll(SetAll(r.s, {"S_SIZE", "D_SECTSIZE", "L_SECTSIZE"}, r.c),
                          {"D_SECTLOG", "S_LOG", "S_SECTLOG"},
                          libxfs_highbit32(r.c)),
                   "lssflag"), "ssflag")))

\* getsubopt: the next write leaves argv
consume(s) == [s EXCEPT !.argv = Tail(@), !.consumed = Append(@, Head(s.argv))]

\* one iteration of a getsubopt loop: consume the next write
getsubopt(s) ==
    With(Head(s.argv), LAMBDA w :
    With(consume(s), LAMBDA s0 :
    With(OptName(w.opt), LAMBDA x :
        CASE x = "b" -> case_b(s0, w)
          [] x = "d" -> case_d(s0, w)
          [] x = "i" -> case_i(s0, w)
          [] x = "l" -> case_l(s0, w)
          [] x = "m" -> case_m(s0, w)
          [] x = "n" -> case_n(s0, w)
          [] x = "r" -> case_r(s0, w)
          [] OTHER -> case_s(s0, w))))

\* after the loop: the positional device name
end_of_options(s) ==
    With(getstr(s, "D_NAME", Text(1)), LAMBDA g :
        IF s.cli.npos > 1 THEN usage(s, Err("ExtraArguments", "none", "none", 0))
        ELSE IF s.cli.npos = 1 THEN
            IF Exited(g) THEN g
            ELSE [g EXCEPT !.xi.volname = TRUE, !.geo.dfile = TRUE,
                           !.pc = "blocksize"]
        ELSE [s EXCEPT !.geo.dfile = s.xi.dname, !.pc = "blocksize"])

-----------------------------------------------------------------------------
(* main() after the option loop: block size, sector size, features *)

\* block size default and limits; default data and log sector sizes
block_size_defaults(s) ==
    With(
        IF ~s.fl.blflag /\ ~s.fl.bsflag
        THEN set_conf_val(set_conf_val(s, "B_LOG", XFS_DFL_BLOCKSIZE_LOG),
                          "B_SIZE", Shl(1, XFS_DFL_BLOCKSIZE_LOG))
        ELSE s
    , LAMBDA s1 :
    With(
        IF ~s1.fl.slflag /\ ~s1.fl.ssflag
        THEN set_conf_val(set_conf_val(s1, "D_SECTLOG", XFS_MIN_SECTORSIZE_LOG),
                          "D_SECTSIZE", XFS_MIN_SECTORSIZE)
        ELSE s1
    , LAMBDA s2 :
    With(
        IF ~s2.fl.lslflag /\ ~s2.fl.lssflag
        THEN set_conf_val(set_conf_val(s2, "L_SECTLOG", get_conf_val(s2, "D_SECTLOG")),
                          "L_SECTSIZE", get_conf_val(s2, "D_SECTSIZE"))
        ELSE s2
    , LAMBDA s3 :
        IF get_conf_val(s1, "B_SIZE") < XFS_MIN_BLOCKSIZE
           \/ get_conf_val(s1, "B_SIZE") > XFS_MAX_BLOCKSIZE
        THEN usage(s1, Err("IllegalBlockSize", "B_SIZE", "none", 0))
        ELSE IF s1.sb_feat.crcs_enabled
                /\ get_conf_val(s1, "B_SIZE") < XFS_MIN_CRC_BLOCKSIZE
        THEN usage(s1, Err("CrcMinBlockSize", "B_SIZE", "M_CRC", 0))
        ELSE IF s1.sb_feat.crcs_enabled /\ ~s1.sb_feat.dirftype
        THEN usage(s1, Err("CrcFeature", "N_FTYPE", "M_CRC", 0))
        ELSE [s3 EXCEPT !.pc = "devices"])))

\* check_device_type for the subvolume v ("d", "l" or "r"); name is whether
\* a name was given, isfile the subvolume's isfile member, create whether
\* the caller passes the subvolume's create member (NULL with -N)
check_device_type(s, v, name, isfile, no_size, no_name, create) ==
    With(s.dev[v].kind, LAMBDA kind :
    With(
        CASE v = "d" -> "disfile" [] v = "l" -> "lisfile" [] OTHER -> "risfile"
    , LAMBDA f :
    With(
        CASE v = "d" -> "dcreat" [] v = "l" -> "lcreat" [] OTHER -> "rcreat"
    , LAMBDA c :
        IF isfile # 0 /\ (no_size \/ no_name)
        THEN usage(s, Err("FileNeedsNameAndSize", "none", "none", 0))
        ELSE IF ~name THEN usage(s, Err("NoDeviceName", "none", "none", 0))
        ELSE IF kind = "none" THEN
            IF isfile # 0 THEN (IF create THEN [s EXCEPT !.xi[c] = 1] ELSE s)
            ELSE usage(s, Err("DeviceError", "none", "none", 0))
        ELSE IF ~s.cli.force_overwrite /\ s.dev[v].signature
        THEN usage(s, Err("OverwriteRefused", "none", "none", 0))
        ELSE IF kind = "reg" THEN
            IF isfile = 0 THEN [s EXCEPT !.xi[f] = 1]
            ELSE IF create THEN [s EXCEPT !.xi[c] = 1]
            ELSE s
        ELSE IF kind = "blk" THEN
            IF isfile # 0
            THEN usage(s, Err("FileOnBlockDevice", "none", "none", 0))
            ELSE s
        ELSE usage(s, Err("DeviceError", "none", "none", 0)))))

\* the three check_device_type calls and get_topology
device_types(s) ==
    With(
        check_device_type(s, "d", s.geo.dfile, s.xi.disfile,
                          get_conf_val(s, "D_SIZE") = 0, ~s.geo.dfile,
                          ~s.cli.Nflag)
    , LAMBDA s1 :
    With(
        IF get_conf_val(s1, "L_INTERNAL") = 0
        THEN check_device_type(s1, "l", s1.xi.logname, s1.xi.lisfile,
                               get_conf_val(s1, "L_SIZE") = 0, ~s1.xi.logname,
                               ~s1.cli.Nflag)
        ELSE s1
    , LAMBDA s2 :
    With(
        IF s2.xi.rtname
        THEN check_device_type(s2, "r", s2.xi.rtname, s2.xi.risfile,
                               get_conf_val(s2, "R_SIZE") = 0, ~s2.xi.rtname,
                               ~s2.cli.Nflag)
        ELSE s2
    , LAMBDA s3 :
        IF Exited(s1) THEN s1
        ELSE IF Exited(s2) THEN s2
        ELSE IF Exited(s3) THEN s3
        ELSE [s3 EXCEPT !.ft = s.dev.ft, !.pc = "sectorsize"])))

\* unless -d sectsize / -s size was given, the sector size the device
\* advertises: physical, or logical when the block size is smaller
device_sector_size(s) ==
    IF s.fl.ssflag THEN s
    ELSE
    With(
        [s EXCEPT !.ft.psectorsize = IF @ = 0 THEN s.ft.lsectorsize ELSE @]
    , LAMBDA a :
    With(
        set_conf_val(a, "D_SECTSIZE",
                     IF a.ft.psectorsize # 0 THEN a.ft.psectorsize
                     ELSE XFS_MIN_SECTORSIZE)
    , LAMBDA b :
        IF get_conf_val(b, "B_SIZE") < get_conf_val(b, "D_SECTSIZE")
           /\ get_conf_val(b, "B_SIZE") >= b.ft.lsectorsize
        THEN set_conf_val(b, "D_SECTSIZE",
                          IF b.ft.lsectorsize # 0 THEN b.ft.lsectorsize
                          ELSE XFS_MIN_SECTORSIZE)
        ELSE b))

\* the sector log, and the log's sector size when the log is internal
device_sector_log(s) ==
    IF s.fl.ssflag THEN s
    ELSE
    With(
        set_conf_val(s, "D_SECTLOG",
                     libxfs_highbit32(get_conf_val(s, "D_SECTSIZE")))
    , LAMBDA a :
        IF get_conf_val(a, "L_INTERNAL") # 0
        THEN set_conf_val(set_conf_val(a, "L_SECTSIZE", get_conf_val(a, "D_SECTSIZE")),
                          "L_SECTLOG", get_conf_val(a, "D_SECTLOG"))
        ELSE a)

\* the limits of the data and log sector sizes; a log sector above 512
\* bytes without a log stripe unit takes the block size as L_SU and v2 logs
sector_size_limits(s) ==
    LET dss == get_conf_val(s, "D_SECTSIZE")
        lss == get_conf_val(s, "L_SECTSIZE")
        bs == get_conf_val(s, "B_SIZE")
    IN  IF dss < XFS_MIN_SECTORSIZE \/ dss > XFS_MAX_SECTORSIZE \/ dss > bs
        THEN usage(s, Err("IllegalSectorSize", "D_SECTSIZE", "B_SIZE", 0))
        ELSE IF dss < s.ft.lsectorsize
        THEN usage(s, Err("IllegalSectorSize", "D_SECTSIZE", "none", 0))
        ELSE IF lss < XFS_MIN_SECTORSIZE \/ lss > XFS_MAX_SECTORSIZE \/ lss > bs
        THEN usage(s, Err("IllegalLogSectorSize", "L_SECTSIZE", "B_SIZE", 0))
        ELSE IF lss > XFS_MIN_SECTORSIZE /\ get_conf_val(s, "L_SU") = 0
                /\ get_conf_val(s, "L_SUNIT") = 0
        THEN [set_conf_val(s, "L_SU", bs) EXCEPT !.sb_feat.log_version = 2]
        ELSE s

\* main() from the topology to the sector size limits
sector_size(s) ==
    Goto(sector_size_limits(device_sector_log(device_sector_size(s))),
         "features")

\* sb_feat.crcs_enabled: what CRC filesystems require
crc_required_checks(s) ==
    LET f == s.sb_feat
        CrcErr(o) == usage(s, Err("CrcFeature", o, "M_CRC", 0))
    IN  IF (s.fl.isflag \/ s.fl.ilflag)
           /\ get_conf_val(s, "I_LOG") < XFS_DINODE_DFL_CRC_LOG
        THEN CrcErr("I_SIZE")
        ELSE IF ~f.inode_align THEN CrcErr("I_ALIGN")
        ELSE IF ~f.lazy_sb_counters THEN CrcErr("L_LAZYSBCNTR")
        ELSE IF f.log_version # 2 THEN CrcErr("L_VERSION")
        ELSE IF f.attr_version # 2 THEN CrcErr("I_ATTR")
        ELSE IF f.projid16bit THEN CrcErr("I_PROJID32BIT")
        ELSE s

\* the same with a default finobt left on
crc_disabled_kept(s) ==
    LET f == s.sb_feat
        CrcErr(o) == usage(s, Err("CrcFeature", o, "M_CRC", 0))
    IN  IF f.finobt # 0 /\ s.seen["M_FINOBT"] THEN CrcErr("M_FINOBT")
        ELSE IF f.spinodes # 0 THEN CrcErr("I_SPINODES")
        ELSE IF f.rmapbt THEN CrcErr("M_RMAPBT")
        ELSE IF f.reflink THEN CrcErr("M_REFLINK")
        ELSE [s EXCEPT !.sb_feat.spinodes = 0,
                       !.sb_feat.rmapbt = FALSE, !.sb_feat.reflink = FALSE]

\* without CRCs: what only CRC filesystems support is an error when asked
\* for, and the default finobt is turned off silently
crc_disabled_checks(s) ==
    LET f == s.sb_feat
        CrcErr(o) == usage(s, Err("CrcFeature", o, "M_CRC", 0))
    IN  IF f.finobt # 0 /\ s.seen["M_FINOBT"] THEN CrcErr("M_FINOBT")
        ELSE IF f.spinodes # 0 THEN CrcErr("I_SPINODES")
        ELSE IF f.rmapbt THEN CrcErr("M_RMAPBT")
        ELSE IF f.reflink THEN CrcErr("M_REFLINK")
        ELSE [s EXCEPT !.sb_feat.finobt = 0, !.sb_feat.spinodes = 0,
                       !.sb_feat.rmapbt = FALSE, !.sb_feat.reflink = FALSE]

\* rmapbt is not supported with a realtime device
rmapbt_realtime_check(s) ==
    IF s.sb_feat.rmapbt /\ s.xi.rtname
    THEN usage(s, Err("RmapbtWithRealtime", "M_RMAPBT", "R_NAME", 0))
    ELSE s

\* main(): what CRC filesystems require and what they alone support
feature_checks(s) ==
    Goto(Then(IF s.sb_feat.crcs_enabled THEN crc_required_checks(s)
              ELSE crc_disabled_checks(s),
              rmapbt_realtime_check),
         "sizes")

-----------------------------------------------------------------------------
(* main(): sizes in filesystem blocks, stripe factors, the devices *)

XFS_MIN_RTEXTSIZE == Pow2(12)
XFS_MAX_RTEXTSIZE == Pow2(30)
XFS_MIN_DATA_BLOCKS == 100
NBBY == 8

\* DTOBT, BBTOB, BTOBBT
DTOBT(s, d) == Shr(d, get_conf_val(s, "B_LOG") - BBSHIFT)
BBTOB(bbs) == Shl(bbs, BBSHIFT)
BTOBBT(bytes) == Shr(bytes, BBSHIFT)
howmany(x, y) == (x + (y - 1)) \div y

\* the directory block size: checked when given, else from the block size
dir_block_size(s) ==
    IF s.fl.nsflag \/ s.fl.nlflag THEN
        IF get_conf_val(s, "N_SIZE") < get_conf_val(s, "B_SIZE")
           \/ get_conf_val(s, "N_SIZE") > XFS_MAX_BLOCKSIZE
        THEN usage(s, Err("IllegalDirBlockSize", "N_SIZE", "B_SIZE", 0))
        ELSE s
    ELSE
    With(
        IF get_conf_val(s, "B_SIZE") < Shl(1, XFS_MIN_REC_DIRSIZE)
        THEN set_conf_val(s, "N_LOG", XFS_MIN_REC_DIRSIZE)
        ELSE set_conf_val(s, "N_LOG", get_conf_val(s, "B_LOG"))
    , LAMBDA a :
        set_conf_val(a, "N_SIZE", Shl(1, get_conf_val(a, "N_LOG"))))

\* dblocks from -d size, which is held in basic blocks and so is a
\* multiple of XFS_MIN_BLOCKSIZE
data_length(s) ==
    IF get_conf_val(s, "D_SIZE") # 0
    THEN [s EXCEPT !.geo.dblocks =
              Shr(get_conf_val(s, "D_SIZE"), get_conf_val(s, "B_LOG") - BBSHIFT)]
    ELSE s

\* the inode size from -i perblock or by default, and the CRC minimum
inode_size(s) ==
    With(
        IF s.fl.ipflag
        THEN set_conf_val(s, "I_LOG",
                 get_conf_val(s, "B_LOG")
                 - libxfs_highbit32(get_conf_val(s, "I_PERBLOCK")))
        ELSE IF ~s.fl.ilflag /\ ~s.fl.isflag
        THEN set_conf_val(s, "I_LOG",
                 IF s.sb_feat.crcs_enabled THEN XFS_DINODE_DFL_CRC_LOG
                 ELSE XFS_DINODE_DFL_LOG)
        ELSE s
    , LAMBDA a :
    With(
        IF s.fl.ipflag \/ (~s.fl.ilflag /\ ~s.fl.isflag)
        THEN set_conf_val(a, "I_SIZE", Shl(1, get_conf_val(a, "I_LOG")))
        ELSE a
    , LAMBDA b :
        IF b.sb_feat.crcs_enabled
           /\ get_conf_val(b, "I_LOG") < XFS_DINODE_DFL_CRC_LOG
        THEN usage(b, Err("CrcFeature", "I_SIZE", "M_CRC", 0))
        ELSE b))

\* logblocks from -l size
log_length(s) ==
    IF get_conf_val(s, "L_SIZE") = 0 THEN s
    ELSE IF get_conf_val(s, "L_SIZE") % XFS_MIN_BLOCKSIZE # 0
    THEN usage(s, Err("IllegalLength", "L_SIZE", "none", 0))
    ELSE [s EXCEPT !.geo.logblocks =
              Shr(get_conf_val(s, "L_SIZE"), get_conf_val(s, "B_LOG"))]

\* rtblocks from -r size, held in basic blocks
rt_length(s) ==
    IF get_conf_val(s, "R_SIZE") # 0
    THEN [s EXCEPT !.geo.rtblocks =
              Shr(get_conf_val(s, "R_SIZE"), get_conf_val(s, "B_LOG") - BBSHIFT)]
    ELSE s

\* without -r extsize: the stripe width of the realtime volume, when it is
\* a multiple of the block size, becomes R_EXTSIZE, and rtextblocks when it
\* is within the limits
rt_extent_stripe(s) ==
    LET rswidth == IF get_conf_val(s, "R_NOALIGN") = 0 /\ s.xi.risfile = 0
                      /\ ~(get_conf_val(s, "R_SIZE") = 0 /\ s.xi.disfile # 0)
                   THEN s.ft.rtswidth ELSE 0
    IN  IF get_conf_val(s, "R_NOALIGN") = 0 /\ rswidth # 0
           /\ BBTOB(rswidth) % get_conf_val(s, "B_SIZE") = 0
        THEN
        With(
            set_conf_val(s, "R_EXTSIZE",
                         Shl(DTOBT(s, rswidth), get_conf_val(s, "B_LOG")))
        , LAMBDA a :
            IF XFS_MIN_RTEXTSIZE <= get_conf_val(a, "R_EXTSIZE")
               /\ get_conf_val(a, "R_EXTSIZE") <= XFS_MAX_RTEXTSIZE
            THEN [a EXCEPT !.geo.rtextblocks = DTOBT(s, rswidth)]
            ELSE a)
        ELSE s

\* the realtime extent size in blocks
rt_extent_size(s) ==
    IF get_conf_val(s, "R_EXTSIZE") # 0 THEN
        IF get_conf_val(s, "R_EXTSIZE") % get_conf_val(s, "B_SIZE") # 0
        THEN usage(s, Err("IllegalLength", "R_EXTSIZE", "B_SIZE", 0))
        ELSE [s EXCEPT !.geo.rtextblocks =
                  Shr(get_conf_val(s, "R_EXTSIZE"), get_conf_val(s, "B_LOG"))]
    ELSE
    With(rt_extent_stripe(s), LAMBDA a :
        IF a.geo.rtextblocks = 0
        THEN [a EXCEPT !.geo.rtextblocks =
                  IF get_conf_val(a, "B_SIZE") < XFS_MIN_RTEXTSIZE
                  THEN Shr(XFS_MIN_RTEXTSIZE, get_conf_val(a, "B_LOG"))
                  ELSE 1]
        ELSE a)

\* the inode size against its limits (this one ends with exit(1))
inode_size_limits(s) ==
    IF get_conf_val(s, "I_SIZE")
           > get_conf_val(s, "B_SIZE") \div XFS_MIN_INODE_PERBLOCK
       \/ get_conf_val(s, "I_SIZE") < XFS_DINODE_MIN_SIZE
       \/ get_conf_val(s, "I_SIZE") > XFS_DINODE_MAX_SIZE
    THEN usage(s, Err("IllegalInodeSize", "I_SIZE", "B_SIZE", 0))
    ELSE s

\* a log stripe unit turns version 1 logs into version 2
log_stripe_version(s) ==
    IF (get_conf_val(s, "L_SU") # 0 \/ get_conf_val(s, "L_SUNIT") # 0)
       /\ s.sb_feat.log_version = 1
    THEN [s EXCEPT !.sb_feat.log_version = 2]
    ELSE s

\* main() from the directory block size to the log version
sizes(s) ==
    Goto(Then(Then(Then(Then(Then(Then(Then(dir_block_size(s),
         data_length), inode_size), log_length), rt_length), rt_extent_size),
         inode_size_limits), log_stripe_version), "stripe")

\* calc_stripe_factors on the values main passes, and the three
\* set_conf_val after it
calc_stripe_factors(s) ==
    LET dsu == get_conf_val(s, "D_SU")
        dsw == get_conf_val(s, "D_SW")
        dsectsz == get_conf_val(s, "D_SECTSIZE")
        lsu == get_conf_val(s, "L_SU")
        bs == get_conf_val(s, "B_SIZE")
        dsunit0 == get_conf_val(s, "D_SUNIT")
        dswidth0 == get_conf_val(s, "D_SWIDTH")
        dsunit == IF dsu # 0 \/ dsw # 0 THEN BTOBBT(dsu) ELSE dsunit0
        dswidth == IF dsu # 0 \/ dsw # 0 THEN BTOBBT(dsu) * dsw ELSE dswidth0
        lsunit == IF lsu # 0 THEN BTOBBT(lsu) ELSE get_conf_val(s, "L_SUNIT")
        StripeErr(o) == usage(s, Err("StripeFactors", o, "none", 0))
    IN  IF (dsunit0 # 0 /\ dswidth0 = 0) \/ (dsunit0 = 0 /\ dswidth0 # 0)
        THEN StripeErr("D_SUNIT")
        ELSE IF (dsu # 0 /\ dsw = 0) \/ (dsu = 0 /\ dsw # 0) THEN StripeErr("D_SU")
        ELSE IF (dsu # 0 \/ dsw # 0) /\ dsu % dsectsz # 0 THEN StripeErr("D_SU")
        ELSE IF dsunit # 0 /\ dswidth % dsunit # 0 THEN StripeErr("D_SWIDTH")
        ELSE IF lsu % bs # 0 THEN StripeErr("L_SU")
        ELSE IF BBTOB(lsunit) % bs # 0 THEN StripeErr("L_SUNIT")
        ELSE [set_conf_val(set_conf_val(set_conf_val(s, "D_SUNIT", dsunit),
                                        "D_SWIDTH", dswidth),
                           "L_SUNIT", lsunit)
              EXCEPT !.pc = "init"]

\* x & ((uint64_t)-1 << k)
MaskLow(x, k) == Shl(Shr(x, k), k)

\* libxfs_init (the library opens the devices, creating or truncating the
\* files whose create member is set and failing on one that does not
\* exist, and reports their sizes in basic blocks), the sector mask, and
\* the discards
libxfs_init(s) ==
    LET kd == MAX(get_conf_val(s, "D_SECTLOG"), 10) - BBSHIFT
        kl == MAX(get_conf_val(s, "L_SECTLOG"), 10) - BBSHIFT
        opened == (IF s.geo.dfile THEN {"d"} ELSE {})
                  \cup (IF s.xi.logname THEN {"l"} ELSE {})
                  \cup (IF s.xi.rtname THEN {"r"} ELSE {})
        created == (IF s.xi.dcreat = 1 THEN {"d"} ELSE {})
                   \cup (IF s.xi.lcreat = 1 THEN {"l"} ELSE {})
                   \cup (IF s.xi.rcreat = 1 THEN {"r"} ELSE {})
        size(v) == IF v \in created THEN 0 ELSE s.dev[v].size
        s0 == [s EXCEPT !.geo.created = created]
        s1 == [s0 EXCEPT
                  !.xi.ddev = s.geo.dfile,
                  !.xi.logdev = s.xi.logname,
                  !.xi.rtdev = s.xi.rtname,
                  !.xi.dsize = MaskLow(size("d"), kd),
                  !.xi.logBBsize = IF s.xi.logname THEN MaskLow(size("l"), kl) ELSE 0,
                  !.xi.rtsize = IF s.xi.rtname THEN MaskLow(size("r"), kd) ELSE 0]
        discards ==
            IF s.cli.discard /\ ~s.cli.Nflag
            THEN (IF s1.xi.disfile = 0 THEN {"d"} ELSE {})
                 \cup (IF s1.xi.rtdev /\ s1.xi.risfile = 0 THEN {"r"} ELSE {})
                 \cup (IF s1.xi.logdev /\ s1.xi.lisfile = 0 THEN {"l"} ELSE {})
            ELSE {}
    IN  IF ~s.dev.init_ok
           \/ \E v \in opened \ created : s.dev[v].kind = "none"
        THEN usage(s0, Err("DeviceError", "none", "none", 0))
        ELSE IF ~s1.xi.ddev THEN usage(s1, Err("NoDeviceName", "none", "none", 0))
        ELSE [s1 EXCEPT !.geo.discarded = discards, !.pc = "subvolumes"]

\* internal log unless a log device was opened; a log must exist
log_subvolume(s) ==
    With(
        IF ~s.fl.liflag /\ ~s.fl.ldflag
        THEN set_conf_val(s, "L_INTERNAL", IF s.xi.logdev THEN 0 ELSE 1)
        ELSE s
    , LAMBDA a :
        IF ~a.xi.logname /\ get_conf_val(a, "L_INTERNAL") = 0
           /\ ~(a.xi.volname /\ a.xi.logdev) /\ ~a.fl.ldflag
        THEN usage(a, Err("NoLogSubvolume", "L_INTERNAL", "none", 0))
        ELSE a)

\* dblocks against the size of the data device, or taken from it
data_subvolume(s) ==
    With(
        IF get_conf_val(s, "D_SIZE") # 0 /\ s.xi.dsize > 0
           /\ s.geo.dblocks > DTOBT(s, s.xi.dsize)
        THEN usage(s, Err("SubvolumeTooLarge", "D_SIZE", "none", 0))
        ELSE IF get_conf_val(s, "D_SIZE") = 0 /\ s.xi.dsize > 0
        THEN [s EXCEPT !.geo.dblocks = DTOBT(s, s.xi.dsize)]
        ELSE IF get_conf_val(s, "D_SIZE") = 0
        THEN usage(s, Err("DeviceError", "D_SIZE", "none", 0))
        ELSE s
    , LAMBDA a :
        IF Exited(a) THEN a
        ELSE IF a.geo.dblocks < XFS_MIN_DATA_BLOCKS
        THEN usage(a, Err("GeometryImpossible", "D_SIZE", "none", 0))
        ELSE a)

\* an internal log excludes a log device and shares the data sector size
internal_log_checks(s) ==
    IF get_conf_val(s, "L_INTERNAL") # 0 /\ s.xi.logdev
    THEN usage(s, Err("InternalAndExternalLog", "L_INTERNAL", "L_NAME", 0))
    ELSE IF get_conf_val(s, "L_INTERNAL") # 0
            /\ get_conf_val(s, "D_SECTSIZE") # get_conf_val(s, "L_SECTSIZE")
    THEN usage(s, Err("SectorSizeMismatch", "D_SECTSIZE", "L_SECTSIZE", 0))
    ELSE s

\* rtblocks against the size of the realtime device, or taken from it;
\* rtextents and nbmblocks
rt_subvolume(s) ==
    With(
        IF get_conf_val(s, "R_SIZE") # 0 /\ s.xi.rtsize > 0
           /\ s.geo.rtblocks > DTOBT(s, s.xi.rtsize)
        THEN usage(s, Err("SubvolumeTooLarge", "R_SIZE", "none", 0))
        ELSE IF get_conf_val(s, "R_SIZE") = 0 /\ s.xi.rtsize > 0
        THEN [s EXCEPT !.geo.rtblocks = DTOBT(s, s.xi.rtsize)]
        ELSE IF get_conf_val(s, "R_SIZE") # 0 /\ ~s.xi.rtdev
        THEN usage(s, Err("NoRtSubvolume", "R_SIZE", "none", 0))
        ELSE s
    , LAMBDA a :
        IF Exited(a) THEN a
        ELSE IF a.xi.rtdev
        THEN [a EXCEPT !.geo.rtextents = a.geo.rtblocks \div a.geo.rtextblocks,
                       !.geo.nbmblocks =
                           howmany(a.geo.rtblocks \div a.geo.rtextblocks,
                                   NBBY * get_conf_val(a, "B_SIZE"))]
        ELSE [a EXCEPT !.geo.rtextents = 0, !.geo.rtblocks = 0,
                       !.geo.nbmblocks = 0])

\* the log and realtime subvolumes and the size of the data subvolume
subvolumes(s) ==
    Goto(Then(Then(Then(log_subvolume(s), data_subvolume),
         internal_log_checks), rt_subvolume), "agsize")

-----------------------------------------------------------------------------
(* main(): the allocation-group geometry *)

XFS_AG_MIN_BLOCKS(bl) == Shr(Pow2(24), bl)
\* (2^40 - 1) >> bl, written so that no intermediate exceeds 2^31 - 1
XFS_AG_MAX_BLOCKS(bl) == (Pow2(39 - bl) - 1) + Pow2(39 - bl)
\* XFS_MAX_AGNUMBER is 2 * (2^31 - 1); c <= XFS_MAX_AGNUMBER + 1
XFS_MAX_AGNUMBER_HALF == IntMax
WithinMaxAgCount(c) == c \div 2 <= XFS_MAX_AGNUMBER_HALF

\* x >= (n << k) and x > (n << k) for shifts the model cannot hold
GeShl(x, n, k) == Shr(x, k) >= n
GtShl(x, n, k) == IF k >= 31 THEN FALSE
                  ELSE Shr(x, k) > n \/ (Shr(x, k) = n /\ x % Pow2(k) # 0)

\* calc_default_ag_geometry: the AG size and count when the user gave none
calc_default_ag_geometry(blocklog, dblocks, multidisk) ==
    LET mb == 20 - blocklog
        gb == 30 - blocklog
        tb == 40 - blocklog
        shift == IF ~multidisk /\ GeShl(dblocks, 128, mb) THEN 2
                 ELSE IF GtShl(dblocks, 512, gb) THEN 5
                 ELSE IF GtShl(dblocks, 8, gb) THEN 4
                 ELSE IF GeShl(dblocks, 128, mb) THEN 3
                 ELSE IF GeShl(dblocks, 64, mb) THEN 2
                 ELSE IF GeShl(dblocks, 32, mb) THEN 1
                 ELSE 0
        blocks == IF GeShl(dblocks, 32, tb)
                     \/ (~multidisk /\ GeShl(dblocks, 128, mb)
                         /\ GeShl(dblocks, 4, tb))
                  THEN XFS_AG_MAX_BLOCKS(blocklog)
                  ELSE IF dblocks % Pow2(shift) # 0
                          /\ Shr(dblocks, shift) < XFS_AG_MAX_BLOCKS(blocklog)
                  THEN Shr(dblocks, shift) + 1
                  ELSE Shr(dblocks, shift)
    IN  With(blocks, LAMBDA agsize :
            [agsize |-> agsize,
             agcount |-> dblocks \div agsize
                         + (IF dblocks % agsize # 0 THEN 1 ELSE 0)])

\* dblocks / agsize + (dblocks % agsize != 0)
AgCountFor(dblocks, agsize) ==
    dblocks \div agsize + (IF dblocks % agsize # 0 THEN 1 ELSE 0)

\* the same without the lower limit of the AG size
validate_ag_geometry_nomin(s, blocklog, dblocks, agsize, agcount) ==
    IF agsize > XFS_AG_MAX_BLOCKS(blocklog)
    THEN usage(s, Err("GeometryImpossible", "D_AGSIZE", "none", 2))
    ELSE IF agsize > dblocks
    THEN usage(s, Err("GeometryImpossible", "D_AGSIZE", "D_SIZE", 3))
    ELSE IF ~WithinMaxAgCount(get_conf_val(s, "D_AGCOUNT"))
    THEN usage(s, Err("GeometryImpossible", "D_AGCOUNT", "none", 5))
    ELSE s

validate_ag_geometry(s, blocklog, dblocks, agsize, agcount) ==
    IF agsize < XFS_AG_MIN_BLOCKS(blocklog)
    THEN usage(s, Err("GeometryImpossible", "D_AGSIZE", "none", 1))
    ELSE IF agsize > XFS_AG_MAX_BLOCKS(blocklog)
    THEN usage(s, Err("GeometryImpossible", "D_AGSIZE", "none", 2))
    ELSE IF agsize > dblocks
    THEN usage(s, Err("GeometryImpossible", "D_AGSIZE", "D_SIZE", 3))
    ELSE IF dblocks % agsize # 0 /\ dblocks % agsize < XFS_AG_MIN_BLOCKS(blocklog)
    THEN usage(s, Err("GeometryImpossible", "D_AGSIZE", "D_SIZE", 4))
    ELSE IF ~WithinMaxAgCount(get_conf_val(s, "D_AGCOUNT"))
    THEN usage(s, Err("GeometryImpossible", "D_AGCOUNT", "none", 5))
    ELSE s

\* the stripe geometry of the device unless the user gave a stripe unit
stripe_topology(s) ==
    IF get_conf_val(s, "D_NOALIGN") = 0 /\ get_conf_val(s, "D_SUNIT") = 0
    THEN set_conf_val(set_conf_val(set_conf_val(s, "D_SUNIT", s.ft.dsunit),
                                   "D_SWIDTH", s.ft.dswidth),
                      "D_NOALIGN", 1)
    ELSE s

\* the AG size and count from -d agsize (held in basic blocks until here),
\* from -d agcount, or by default
ag_geometry(s) ==
    IF s.fl.dasize THEN
        IF get_conf_val(s, "D_AGSIZE")
               % Pow2(get_conf_val(s, "B_LOG") - BBSHIFT) # 0
        THEN usage(s, Err("GeometryImpossible", "D_AGSIZE", "B_SIZE", 0))
        ELSE
        With(
            set_conf_val(s, "D_AGSIZE",
                Shr(get_conf_val(s, "D_AGSIZE"), get_conf_val(s, "B_LOG") - BBSHIFT))
        , LAMBDA a :
            set_conf_val(a, "D_AGCOUNT",
                AgCountFor(a.geo.dblocks, get_conf_val(a, "D_AGSIZE"))))
    ELSE IF s.fl.daflag THEN
        set_conf_val(s, "D_AGSIZE",
            AgCountFor(s.geo.dblocks, get_conf_val(s, "D_AGCOUNT")))
    ELSE
    With(
        calc_default_ag_geometry(get_conf_val(s, "B_LOG"), s.geo.dblocks,
            get_conf_val(s, "D_SUNIT") # 0 \/ get_conf_val(s, "D_SWIDTH") # 0)
    , LAMBDA def :
        set_conf_val(set_conf_val(s, "D_AGCOUNT", def.agcount),
                     "D_AGSIZE", def.agsize))

\* main() from the stripe topology to the AG size and count
ag_size(s) == Goto(Then(stripe_topology(s), ag_geometry), "agalign")

\* ASSERT(ex): a build without DEBUG goes on; that ex did not hold is kept
ASSERT(s, ex, what) ==
    IF ex THEN s ELSE [s EXCEPT !.geo.asserts = @ \cup {what}]

\* the last AG, when shorter than the minimum, is dropped with its blocks
drop_short_last_ag(s) ==
    IF s.geo.dblocks % get_conf_val(s, "D_AGSIZE") # 0
       /\ s.geo.dblocks % get_conf_val(s, "D_AGSIZE")
              < XFS_AG_MIN_BLOCKS(get_conf_val(s, "B_LOG"))
    THEN With(ASSERT(s, ~s.fl.daflag, "!daflag"), LAMBDA a :
         ASSERT(
            [set_conf_val(a, "D_AGCOUNT", get_conf_val(a, "D_AGCOUNT") - 1)
             EXCEPT !.geo.dblocks =
                 (get_conf_val(a, "D_AGCOUNT") - 1) * get_conf_val(a, "D_AGSIZE")],
            get_conf_val(a, "D_AGCOUNT") - 1 # 0, "D_AGCOUNT != 0"))
    ELSE s

\* D_SUNIT and D_SWIDTH from basic blocks to filesystem blocks
stripe_in_blocks(s) ==
    With(
        set_conf_val(s, "D_SUNIT", DTOBT(s, get_conf_val(s, "D_SUNIT")))
    , LAMBDA a :
        set_conf_val(a, "D_SWIDTH", DTOBT(a, get_conf_val(a, "D_SWIDTH"))))

\* an AG size that is not a multiple of the stripe unit is rounded to it;
\* when that leaves the limits the stripe is dropped under D_NOALIGN, else
\* validate_ag_geometry reports and main exits
ag_round_to_sunit(s) ==
    LET sunit == get_conf_val(s, "D_SUNIT")
        agsize == get_conf_val(s, "D_AGSIZE")
        blocklog == get_conf_val(s, "B_LOG")
        up == ((agsize + (sunit - 1)) \div sunit) * sunit
        tmp_agsize == IF up > XFS_AG_MAX_BLOCKS(blocklog)
                      THEN (agsize \div sunit) * sunit ELSE up
    IN  IF agsize % sunit = 0 THEN s
        ELSE IF tmp_agsize >= XFS_AG_MIN_BLOCKS(blocklog)
                /\ tmp_agsize <= XFS_AG_MAX_BLOCKS(blocklog)
        THEN
            IF ~s.fl.daflag
            THEN set_conf_val(set_conf_val(s, "D_AGSIZE", tmp_agsize),
                              "D_AGCOUNT", AgCountFor(s.geo.dblocks, tmp_agsize))
            ELSE set_conf_val(s, "D_AGSIZE", tmp_agsize)
        ELSE IF get_conf_val(s, "D_NOALIGN") # 0
        THEN set_conf_val(set_conf_val(s, "D_SUNIT", 0), "D_SWIDTH", 0)
        ELSE
        With(
            validate_ag_geometry(s, blocklog, s.geo.dblocks, agsize,
                                 get_conf_val(s, "D_AGCOUNT"))
        , LAMBDA v :
            IF Exited(v) THEN v
            ELSE usage(s, Err("GeometryImpossible", "D_AGSIZE", "D_SUNIT", 0)))

\* an AG size that is a multiple of the stripe width is moved by one stripe
\* unit, unless the user gave the AG size or count
ag_off_swidth(s) ==
    LET sunit == get_conf_val(s, "D_SUNIT")
        agsize == get_conf_val(s, "D_AGSIZE")
        tmp_agsize ==
            IF agsize - sunit < XFS_AG_MIN_BLOCKS(get_conf_val(s, "B_LOG"))
            THEN (IF s.geo.dblocks < agsize THEN agsize ELSE agsize + sunit)
            ELSE agsize - sunit
    IN  IF get_conf_val(s, "D_SWIDTH") # 0
           /\ agsize % get_conf_val(s, "D_SWIDTH") = 0
           /\ get_conf_val(s, "D_AGCOUNT") > 1
           /\ ~(s.fl.daflag \/ s.fl.dasize)
        THEN drop_short_last_ag(
                 set_conf_val(set_conf_val(s, "D_AGSIZE", tmp_agsize),
                              "D_AGCOUNT", AgCountFor(s.geo.dblocks, tmp_agsize)))
        ELSE s

\* the AG size against the stripe geometry, when the stripe unit and width
\* are multiples of the block size
ag_align(s) ==
    IF get_conf_val(s, "D_SUNIT") # 0
       /\ BBTOB(get_conf_val(s, "D_SUNIT")) % get_conf_val(s, "B_SIZE") = 0
       /\ get_conf_val(s, "D_SWIDTH") # 0
       /\ BBTOB(get_conf_val(s, "D_SWIDTH")) % get_conf_val(s, "B_SIZE") = 0
    THEN Goto(Then(ag_round_to_sunit(stripe_in_blocks(s)), ag_off_swidth),
              "aglast")
    ELSE IF get_conf_val(s, "D_NOALIGN") # 0
    THEN Goto(set_conf_val(set_conf_val(s, "D_SWIDTH", 0), "D_SUNIT", 0),
              "aglast")
    ELSE usage(s, Err("GeometryImpossible", "D_SUNIT", "B_SIZE", 0))

-----------------------------------------------------------------------------
(* main(): last AG, log stripe unit, log size *)

XFS_DFL_IMAXIMUM_PCT == 25
XFS_MIN_LOG_BLOCKS == 512
XFS_MIN_LOG_BYTES == 10 * Pow2(20)
XFS_MAX_LOG_BLOCKS == Pow2(20)
XFS_MAX_LOG_BYTES == Pow2(30) + (Pow2(30) - XFS_MIN_LOG_BYTES)
XFS_DFL_LOG_FACTOR == 5

calc_default_imaxpct(blocklog, dblocks) ==
    IF ~GeShl(dblocks, 1, 40 - blocklog) THEN XFS_DFL_IMAXIMUM_PCT
    ELSE IF ~GeShl(dblocks, 50, 40 - blocklog) THEN 5
    ELSE 1

\* validate_ag_geometry on the final geometry
validate_final_geometry(s) ==
    validate_ag_geometry(s, get_conf_val(s, "B_LOG"), s.geo.dblocks,
                         get_conf_val(s, "D_AGSIZE"),
                         get_conf_val(s, "D_AGCOUNT"))

\* the default imaxpct
default_imaxpct(s) ==
    IF ~s.fl.imflag
    THEN set_conf_val(s, "I_MAXPCT",
             calc_default_imaxpct(get_conf_val(s, "B_LOG"), s.geo.dblocks))
    ELSE s

\* the log stripe unit in filesystem blocks: the one given, or the data
\* stripe unit for an internal v2 log; above 256KiB it becomes 32KiB
log_stripe_unit(s) ==
    With(
        IF get_conf_val(s, "L_SUNIT") # 0
        THEN set_conf_val(s, "L_SUNIT", DTOBT(s, get_conf_val(s, "L_SUNIT")))
        ELSE IF s.sb_feat.log_version = 2 /\ get_conf_val(s, "L_INTERNAL") # 0
                /\ get_conf_val(s, "D_SUNIT") # 0
        THEN set_conf_val(s, "L_SUNIT", get_conf_val(s, "D_SUNIT"))
        ELSE s
    , LAMBDA a :
        IF a.sb_feat.log_version = 2
           /\ get_conf_val(a, "L_SUNIT") * get_conf_val(a, "B_SIZE") > 256 * 1024
        THEN set_conf_val(a, "L_SUNIT", Shr(32 * 1024, get_conf_val(a, "B_LOG")))
        ELSE a)

\* main() from the last AG to the log stripe unit
last_ag(s) ==
    Goto(Then(Then(Then(drop_short_last_ag(s), validate_final_geometry),
         default_imaxpct), log_stripe_unit), "logsize")

validate_log_size(s, logblocks, blocklog, min_logblocks) ==
    IF logblocks < min_logblocks
    THEN usage(s, Err("GeometryImpossible", "L_SIZE", "none", 1))
    ELSE IF logblocks > XFS_MAX_LOG_BLOCKS
    THEN usage(s, Err("GeometryImpossible", "L_SIZE", "none", 2))
    ELSE IF logblocks > Shr(XFS_MAX_LOG_BYTES, get_conf_val(s, "B_LOG"))
    THEN usage(s, Err("GeometryImpossible", "L_SIZE", "none", 3))
    ELSE s

\* max_trans_res: the worst-case transaction reservation in blocks, a
\* library computation; the devices record carries its result
max_trans_res(s) == s.dev.max_trans_res

\* validate_log_size on the current logblocks and min_logblocks
validate_logblocks(s) ==
    validate_log_size(s, s.geo.logblocks, get_conf_val(s, "B_LOG"),
                      s.geo.min_logblocks)

\* min_logblocks: the transaction reservation, at least XFS_MIN_LOG_BLOCKS,
\* and XFS_MIN_LOG_BYTES for an unsized log on 1GiB or more
min_log_size(s) ==
    With(MAX(XFS_MIN_LOG_BLOCKS, max_trans_res(s)), LAMBDA m :
        [s EXCEPT !.geo.min_logblocks =
            IF get_conf_val(s, "L_SIZE") = 0
               /\ s.geo.dblocks >= Shr(1024 * 1024 * 1024, get_conf_val(s, "B_LOG"))
            THEN MAX(m, Shr(XFS_MIN_LOG_BYTES, get_conf_val(s, "B_LOG")))
            ELSE m])

\* the default size of an internal log: by the size of the filesystem
\* (2048:1 from 16GiB, where (dblocks << bl) / 2048 >> bl is dblocks >> 11),
\* at least min_logblocks, within an AG and within the maxima
default_logblocks(s) ==
    LET bl == get_conf_val(s, "B_LOG")
        min_logblocks == s.geo.min_logblocks
        bysize == IF ~GeShl(s.geo.dblocks, 1, 30 - bl) THEN min_logblocks
                  ELSE IF ~GeShl(s.geo.dblocks, 16, 30 - bl)
                  THEN MIN(Shr(XFS_MIN_LOG_BYTES, bl),
                           min_logblocks * XFS_DFL_LOG_FACTOR)
                  ELSE Shr(s.geo.dblocks, 11)
        inag == IF MAX(min_logblocks, bysize) >= get_conf_val(s, "D_AGSIZE")
                THEN min_logblocks ELSE MAX(min_logblocks, bysize)
    IN  IF MIN(inag, XFS_MAX_LOG_BLOCKS) > Shr(XFS_MAX_LOG_BYTES, bl)
        THEN Shr(XFS_MAX_LOG_BYTES, bl)
        ELSE MIN(inag, XFS_MAX_LOG_BLOCKS)

\* logblocks: against the log device or from it, or the default
log_blocks(s) ==
    IF get_conf_val(s, "L_SIZE") # 0 /\ s.xi.logBBsize > 0
       /\ s.geo.logblocks > DTOBT(s, s.xi.logBBsize)
    THEN usage(s, Err("SubvolumeTooLarge", "L_SIZE", "none", 0))
    ELSE IF get_conf_val(s, "L_SIZE") = 0 /\ s.xi.logBBsize > 0
    THEN [s EXCEPT !.geo.logblocks = DTOBT(s, s.xi.logBBsize)]
    ELSE IF get_conf_val(s, "L_SIZE") # 0 /\ ~s.xi.logdev
            /\ get_conf_val(s, "L_INTERNAL") = 0
    THEN usage(s, Err("NoLogSubvolume", "L_SIZE", "none", 0))
    ELSE IF get_conf_val(s, "L_INTERNAL") # 0 /\ get_conf_val(s, "L_SIZE") # 0
            /\ s.geo.logblocks >= s.geo.dblocks
    THEN usage(s, Err("GeometryImpossible", "L_SIZE", "D_SIZE", 0))
    ELSE IF get_conf_val(s, "L_INTERNAL") = 0 /\ ~s.xi.logdev
    THEN [s EXCEPT !.geo.logblocks = 0]
    ELSE IF get_conf_val(s, "L_INTERNAL") # 0 /\ get_conf_val(s, "L_SIZE") = 0
    THEN [s EXCEPT !.geo.logblocks = default_logblocks(s)]
    ELSE s

\* the size of the log in blocks
log_size(s) ==
    Goto(Then(Then(min_log_size(s), log_blocks), validate_logblocks), "sbinit")

-----------------------------------------------------------------------------
(* main(): the superblock features, the internal log, the geometry print *)

XFS_INODES_PER_CHUNK == 64

\* sb_set_features: the version and feature bits of the superblock
sb_set_features(sbp, fp, sectsize, lsectsize, dsunit) ==
    LET features2 ==
            (IF fp.lazy_sb_counters THEN {"LAZYSBCOUNTBIT"} ELSE {})
            \cup (IF ~fp.projid16bit THEN {"PROJID32BIT"} ELSE {})
            \cup (IF fp.parent_pointers THEN {"PARENTBIT"} ELSE {})
            \cup (IF fp.crcs_enabled THEN {"CRCBIT"} ELSE {})
            \cup (IF fp.attr_version = 2 THEN {"ATTR2BIT"} ELSE {})
            \cup (IF fp.dirftype /\ ~fp.crcs_enabled THEN {"FTYPE"} ELSE {})
        versionnum ==
            {"NLINKBIT", "DIRV2BIT", "EXTFLGBIT"}
            \cup (IF fp.crcs_enabled THEN {"VERSION_5"} ELSE {"VERSION_4"})
            \cup (IF fp.inode_align THEN {"ALIGNBIT"} ELSE {})
            \cup (IF dsunit # 0 THEN {"DALIGNBIT"} ELSE {})
            \cup (IF fp.log_version = 2 THEN {"LOGV2BIT"} ELSE {})
            \cup (IF fp.attr_version = 1 THEN {"ATTRBIT"} ELSE {})
            \cup (IF sectsize > BBSIZE \/ lsectsize > BBSIZE
                  THEN {"SECTORBIT"} ELSE {})
            \cup (IF fp.nci THEN {"BORGBIT"} ELSE {})
            \cup (IF features2 # {} THEN {"MOREBITSBIT"} ELSE {})
        ro_compat ==
            (IF fp.finobt # 0 THEN {"FINOBT"} ELSE {})
            \cup (IF fp.rmapbt THEN {"RMAPBT"} ELSE {})
            \cup (IF fp.reflink THEN {"REFLINK"} ELSE {})
        incompat ==
            {"FTYPE"} \cup (IF fp.spinodes # 0 THEN {"SPINODES"} ELSE {})
    IN  IF ~fp.crcs_enabled
        THEN [sbp EXCEPT !.sb_versionnum = versionnum,
                         !.sb_features2 = features2]
        ELSE IF fp.spinodes # 0
        THEN [sbp EXCEPT !.sb_versionnum = versionnum,
                         !.sb_features2 = features2,
                         !.sb_features_ro_compat = ro_compat,
                         !.sb_features_incompat = incompat,
                         !.sb_spino_align = sbp.sb_inoalignmt,
                         !.sb_inoalignmt =
                             Shr(XFS_INODES_PER_CHUNK * sbp.sb_inodesize,
                                 sbp.sb_blocklog)]
        ELSE [sbp EXCEPT !.sb_versionnum = versionnum,
                         !.sb_features2 = features2,
                         !.sb_features_ro_compat = ro_compat,
                         !.sb_features_incompat = incompat]

\* libxfs_log2_roundup: the least n with 2^n >= i
libxfs_log2_roundup(i) == IF i <= 1 THEN 0 ELSE libxfs_highbit32(i - 1) + 1

\* libxfs_prealloc_blocks: the first block of an AG after the static
\* metadata (AGFL block, then one root block per per-AG btree)
libxfs_prealloc_blocks(s) ==
    With(
        Shr(Shl(3, s.sb.sb_sectlog - BBSHIFT), s.sb.sb_blocklog - BBSHIFT)
    , LAMBDA agfl_block :
    With(s.sb.sb_features_ro_compat, LAMBDA ro :
        agfl_block + 4 + (IF "REFLINK" \in ro THEN 3
                          ELSE IF "RMAPBT" \in ro THEN 2
                          ELSE IF "FINOBT" \in ro THEN 1 ELSE 0)))

\* libxfs_alloc_ag_max_usable: the AG blocks left after the headers, the
\* AGFL reserve and the btree roots
libxfs_alloc_ag_max_usable(s) ==
    With(s.sb.sb_features_ro_compat, LAMBDA ro :
    With(
        howmany(Shl(4, s.sb.sb_sectlog - BBSHIFT),
                Pow2(s.sb.sb_blocklog - BBSHIFT))
        + 4 + 3
        + (IF "FINOBT" \in ro THEN 1 ELSE 0)
        + (IF "RMAPBT" \in ro THEN 1 ELSE 0)
        + (IF "REFLINK" \in ro THEN 1 ELSE 0)
    , LAMBDA blocks :
        s.sb.sb_agblocks - blocks))

\* fixup_log_stripe_unit: the log size made a multiple of the stripe unit
fixup_log_stripe_unit(s, lsflag, sunit, blocklog) ==
    With(s.geo.logblocks, LAMBDA lb :
    With(((lb + (sunit - 1)) \div sunit) * sunit, LAMBDA up :
    With(
        IF up > XFS_MAX_LOG_BLOCKS \/ up > Shr(XFS_MAX_LOG_BYTES, blocklog)
        THEN (lb \div sunit) * sunit ELSE up
    , LAMBDA tmp :
        IF lb % sunit = 0 THEN s
        ELSE IF ~lsflag THEN [s EXCEPT !.geo.logblocks = tmp]
        ELSE usage(s, Err("GeometryImpossible", "L_SIZE", "L_SUNIT", 0)))))

\* fixup_internal_log_stripe: the log start rounded up to the stripe unit
fixup_internal_log_stripe(s, lsflag, agsize, sunit, blocklog) ==
    With(s.geo.logstart, LAMBDA ls :
    With(
        IF ls % sunit # 0
        THEN [s EXCEPT !.geo.logstart = ((ls + (sunit - 1)) \div sunit) * sunit,
                       !.geo.lalign = 1]
        ELSE s
    , LAMBDA s1 :
    With(fixup_log_stripe_unit(s1, lsflag, sunit, blocklog), LAMBDA s2 :
        IF Exited(s2) THEN s2
        ELSE IF s2.geo.logblocks > agsize - (s2.geo.logstart % Pow2(s2.sb.sb_agblklog))
        THEN usage(s2, Err("GeometryImpossible", "L_SIZE", "D_AGSIZE", 0))
        ELSE s2)))

\* sb_set_features on the values main passes
set_features(s) ==
    [s EXCEPT !.sb = sb_set_features(s.sb, s.sb_feat,
                         get_conf_val(s, "D_SECTSIZE"),
                         get_conf_val(s, "L_SECTSIZE"),
                         get_conf_val(s, "D_SUNIT"))]

\* the geometry fields of the in-core superblock and its features
sb_geometry(s) ==
    set_features(
        [s EXCEPT !.sb.sb_blocklog = get_conf_val(s, "B_LOG"),
                  !.sb.sb_sectlog = get_conf_val(s, "D_SECTLOG"),
                  !.sb.sb_agblklog =
                      libxfs_log2_roundup(get_conf_val(s, "D_AGSIZE")),
                  !.sb.sb_agblocks = get_conf_val(s, "D_AGSIZE")])

\* an internal log sized by default is cut to what an AG can hold
internal_log_size(s) ==
    IF get_conf_val(s, "L_SIZE") = 0
    THEN validate_logblocks(
             [s EXCEPT !.geo.logblocks = MIN(@, libxfs_alloc_ag_max_usable(s))])
    ELSE s

\* no limit on the internal log within its AG
internal_log_fits_any(s) == s

\* an internal log fits in an AG after the static metadata
internal_log_fits(s) ==
    IF s.geo.logblocks > get_conf_val(s, "D_AGSIZE") - libxfs_prealloc_blocks(s)
    THEN usage(s, Err("GeometryImpossible", "L_SIZE", "D_AGSIZE", 1))
    ELSE s

\* the AG of the log: the one given, below agcount, or the middle one
log_agnum(s) ==
    IF s.fl.laflag THEN
        IF get_conf_val(s, "L_AGNUM") >= get_conf_val(s, "D_AGCOUNT")
        THEN usage(s, Err("GeometryImpossible", "L_AGNUM", "D_AGCOUNT", 0))
        ELSE s
    ELSE set_conf_val(s, "L_AGNUM", get_conf_val(s, "D_AGCOUNT") \div 2)

\* logstart, aligned to the log stripe unit or else the data stripe unit
internal_log_start(s) ==
    With(
        [s EXCEPT !.geo.logstart =
            get_conf_val(s, "L_AGNUM") * Pow2(s.sb.sb_agblklog)
            + libxfs_prealloc_blocks(s)]
    , LAMBDA a :
        IF get_conf_val(a, "L_SUNIT") # 0
        THEN fixup_internal_log_stripe(a, a.fl.lsflag,
                 get_conf_val(a, "D_AGSIZE"), get_conf_val(a, "L_SUNIT"),
                 get_conf_val(a, "B_LOG"))
        ELSE IF get_conf_val(a, "D_SUNIT") # 0
        THEN fixup_internal_log_stripe(a, a.fl.lsflag,
                 get_conf_val(a, "D_AGSIZE"), get_conf_val(a, "D_SUNIT"),
                 get_conf_val(a, "B_LOG"))
        ELSE a)

\* an external log starts at 0; its size follows the log stripe unit
external_log(s) ==
    IF get_conf_val(s, "L_SUNIT") # 0
    THEN fixup_log_stripe_unit([s EXCEPT !.geo.logstart = 0], s.fl.lsflag,
             get_conf_val(s, "L_SUNIT"), get_conf_val(s, "B_LOG"))
    ELSE [s EXCEPT !.geo.logstart = 0]

\* the place of the log
place_log(s) ==
    IF get_conf_val(s, "L_INTERNAL") # 0
    THEN Then(Then(Then(internal_log_size(s), internal_log_fits), log_agnum),
              internal_log_start)
    ELSE external_log(s)

\* the in-core superblock, its features, and the place of the log
sb_init(s) ==
    Goto(Then(Then(sb_geometry(s), place_log), validate_logblocks), "print")

\* the geometry is accepted: it is printed, and -N ends the run here
print_geometry(s) ==
    With(
        [s EXCEPT !.geo.accepted = TRUE,
                  !.geo.printed = ~s.cli.qflag \/ s.cli.Nflag]
    , LAMBDA s1 :
        IF s1.geo.printed /\ s.cli.Nflag
        THEN [s1 EXCEPT !.pc = "exit", !.code = 0]
        ELSE [s1 EXCEPT !.pc = "fill"])

\* the superblock fields main assigns from the geometry
sb_fields(s) ==
    [s EXCEPT
       !.sb.sb_blocksize = get_conf_val(s, "B_SIZE"),
       !.sb.sb_dblocks = s.geo.dblocks,
       !.sb.sb_rblocks = s.geo.rtblocks,
       !.sb.sb_rextents = s.geo.rtextents,
       !.sb.sb_logstart = s.geo.logstart,
       !.sb.sb_rextsize = s.geo.rtextblocks,
       !.sb.sb_agcount = get_conf_val(s, "D_AGCOUNT"),
       !.sb.sb_rbmblocks = s.geo.nbmblocks,
       !.sb.sb_logblocks = s.geo.logblocks,
       !.sb.sb_sectsize = get_conf_val(s, "D_SECTSIZE"),
       !.sb.sb_inodesize = get_conf_val(s, "I_SIZE"),
       !.sb.sb_inopblock = get_conf_val(s, "B_SIZE") \div get_conf_val(s, "I_SIZE"),
       !.sb.sb_sectlog = get_conf_val(s, "D_SECTLOG"),
       !.sb.sb_inodelog = get_conf_val(s, "I_LOG"),
       !.sb.sb_inopblog = get_conf_val(s, "B_LOG") - get_conf_val(s, "I_LOG"),
       !.sb.sb_inprogress = 1,
       !.sb.sb_imax_pct = get_conf_val(s, "I_MAXPCT"),
       !.sb.sb_fdblocks =
           s.geo.dblocks
           - get_conf_val(s, "D_AGCOUNT") * libxfs_prealloc_blocks(s)
           - (IF get_conf_val(s, "L_INTERNAL") # 0 THEN s.geo.logblocks ELSE 0),
       !.sb.sb_unit = get_conf_val(s, "D_SUNIT"),
       !.sb.sb_width = get_conf_val(s, "D_SWIDTH"),
       !.sb.sb_dirblklog = get_conf_val(s, "N_LOG") - get_conf_val(s, "B_LOG")]

\* the log stripe unit in bytes, 1 when there is none, for version 2 logs
\* ... with the log stripe unit left in filesystem blocks
sb_log_sunit_blocks(s) ==
    [s EXCEPT !.sb.sb_logsunit =
        IF s.sb_feat.log_version = 2 THEN get_conf_val(s, "L_SUNIT") ELSE 0]
sb_log_sunit(s) ==
    IF s.sb_feat.log_version = 2 THEN
    With(
        set_conf_val(s, "L_SUNIT",
            IF get_conf_val(s, "L_SUNIT") = 0 THEN 1
            ELSE Shl(get_conf_val(s, "L_SUNIT"), get_conf_val(s, "B_LOG")))
    , LAMBDA a :
        [a EXCEPT !.sb.sb_logsunit = get_conf_val(a, "L_SUNIT")])
    ELSE [s EXCEPT !.sb.sb_logsunit = 0]

\* the inode alignment from the inode cluster size; inode_align is
\* recomputed from it
sb_inode_align(s) ==
    IF s.sb_feat.inode_align THEN
    With(
        [s EXCEPT !.sb.sb_inoalignmt =
            Shr(IF s.sb_feat.crcs_enabled
                THEN XFS_INODE_BIG_CLUSTER_SIZE
                     * (get_conf_val(s, "I_SIZE") \div XFS_DINODE_MIN_SIZE)
                ELSE XFS_INODE_BIG_CLUSTER_SIZE,
                get_conf_val(s, "B_LOG"))]
    , LAMBDA a :
        [a EXCEPT !.sb_feat.inode_align = a.sb.sb_inoalignmt # 0])
    ELSE [s EXCEPT !.sb.sb_inoalignmt = 0]

\* the log sector size, recorded when a sector size is not 512
sb_log_sector(s) ==
    IF get_conf_val(s, "L_SECTSIZE") # BBSIZE
       \/ get_conf_val(s, "D_SECTSIZE") # BBSIZE
    THEN [s EXCEPT !.sb.sb_logsectlog = get_conf_val(s, "L_SECTLOG"),
                   !.sb.sb_logsectsize = get_conf_val(s, "L_SECTSIZE")]
    ELSE [s EXCEPT !.sb.sb_logsectlog = 0, !.sb.sb_logsectsize = 0]

\* main() from the superblock fields to the final feature bits
fill_superblock(s) ==
    Goto(set_features(sb_log_sector(sb_inode_align(sb_log_sunit(sb_fields(s))))),
         "write")

-----------------------------------------------------------------------------
(* main(): the writer *)

\* a write to a device: what is written, the AGs lo..hi it is written to
\* (-1 when it belongs to no AG), and for a superblock its sb_inprogress
\* (-1 for anything else)
Wr(what, lo, hi, inprogress) ==
    [what |-> what, lo |-> lo, hi |-> hi, inprogress |-> inprogress]

\* libxfs_writebuf, pwrite, ftruncate, libxfs_log_clear and the library's
\* transactions: the writes ws are issued in this order
libxfs_writebuf(s, ws) == [s EXCEPT !.geo.writes = @ \o ws]

\* the run ends with exit(1) in the writer
WriterFailures == {"none", "ftruncate", "mount", "reserve", "rootino"}
writer_exit(s, what) ==
    [s EXCEPT !.pc = "exit", !.code = 1,
              !.err = Err("WriterFailed", what, "none", 0)]

\* main() from zero_old_xfs_structures to libxfs_mount: the old secondary
\* superblocks of an XFS signature, the first 128KiB, the primary
\* superblock, the length of an image file, the last 128KiB of a device,
\* the log
write_start(s, fail) ==
    LET grow == s.xi.disfile # 0
                /\ s.xi.dsize < s.geo.dblocks * Pow2(get_conf_val(s, "B_LOG") - BBSHIFT)
        a == libxfs_writebuf(s,
                 (IF s.cli.force_overwrite /\ ~(s.xi.disfile # 0 /\ s.xi.dcreat # 0)
                     /\ s.dev.d.signature
                  THEN <<Wr("zero_old", -1, -1, -1)>> ELSE <<>>)
                 \o <<Wr("whack", -1, -1, -1),
                      Wr("sb", 0, 0, s.sb.sb_inprogress)>>)
        b == libxfs_writebuf(a,
                 (IF grow THEN <<Wr("ftruncate", -1, -1, -1)>> ELSE <<>>)
                 \o (IF s.xi.disfile = 0 THEN <<Wr("whack", -1, -1, -1)>> ELSE <<>>)
                 \o <<Wr("log", -1, -1, -1)>>)
    IN  IF grow /\ fail = "ftruncate" THEN writer_exit(a, fail)
        ELSE IF fail = "mount" THEN writer_exit(b, fail)
        ELSE [b EXCEPT !.pc = "ags"]

\* one iteration of the AG loop: the AGF and AGI lengths, the free block
\* counts of the AGF and the records of the BNO and the CNT root block of
\* AG agno, D_AGSIZE being agsize when they are built.  The on-disk fields
\* have 32 bits: a negative number stands for itself plus 2^32.  A root
\* block whose last record is empty has bb_numrecs reset to 0.
ag_header(s, agno, agsize) ==
    LET prealloc == libxfs_prealloc_blocks(s)
        logblocks == s.geo.logblocks
        logag == get_conf_val(s, "L_INTERNAL") # 0
                 /\ agno = get_conf_val(s, "L_AGNUM")
        agbno == s.geo.logstart % Pow2(s.sb.sb_agblklog)
        padded == logag /\ s.geo.lalign # 0
        pad == [ar_startblock |-> prealloc, ar_blockcount |-> agbno - prealloc]
        start == (IF padded THEN pad.ar_startblock + pad.ar_blockcount
                  ELSE prealloc)
                 + (IF logag THEN logblocks ELSE 0)
        arec == [ar_startblock |-> start, ar_blockcount |-> agsize - start]
        recs == IF arec.ar_blockcount = 0 THEN <<>>
                ELSE (IF padded THEN <<pad>> ELSE <<>>) \o <<arec>>
        nbmblocks == agsize - prealloc
    IN  [agf_length |-> agsize, agi_length |-> agsize,
         agf_freeblks |-> nbmblocks - (IF logag THEN logblocks ELSE 0),
         agf_longest |-> IF logag THEN agsize - agbno - logblocks
                         ELSE nbmblocks,
         bno |-> recs, cnt |-> recs]

\* the headers the AG loop writes, one entry for every run lo..hi of AGs
\* whose headers are the same: the AG of the internal log and the last AG,
\* which takes what is left of dblocks as D_AGSIZE, stand apart
ag_header_runs(s) ==
    LET agcount == get_conf_val(s, "D_AGCOUNT")
        agsize == get_conf_val(s, "D_AGSIZE")
        lag == get_conf_val(s, "L_AGNUM")
        cuts == {0, agcount - 1, agcount}
                \cup (IF get_conf_val(s, "L_INTERNAL") # 0
                      THEN {lag, lag + 1} ELSE {})
        los == {c \in cuts : 0 <= c /\ c < agcount}
        next(lo) == MinOf({c \in cuts : c > lo})
        size(agno) == IF agno = agcount - 1
                      THEN s.geo.dblocks - agno * agsize ELSE agsize
    IN  {[lo |-> lo, hi |-> next(lo) - 1, hdr |-> ag_header(s, lo, size(lo))] :
            lo \in los}

\* the loop over the AGs: in AG agno the superblock, then the AGF, AGFL and
\* AGI headers and the btree roots; the AGF of the last AG takes what is
\* left of dblocks as its length, through D_AGSIZE.  The iterations after
\* AG 0 are recorded together.
ag_headers(s) ==
    LET agcount == get_conf_val(s, "D_AGCOUNT")
        iter(lo, hi) == <<Wr("sb", lo, hi, s.sb.sb_inprogress),
                          Wr("ag", lo, hi, -1)>>
        a == libxfs_writebuf(s,
                 iter(0, 0) \o (IF agcount > 1 THEN iter(1, agcount - 1) ELSE <<>>))
    IN  [set_conf_val(a, "D_AGSIZE",
             s.geo.dblocks - (agcount - 1) * get_conf_val(s, "D_AGSIZE"))
         EXCEPT !.pc = "finish", !.geo.agf = ag_header_runs(s)]

\* main() from the last block to the secondary superblocks: the last block
\* of the data and the realtime section, the free lists of the AGs, the
\* root inode (parse_proto), which must be in AG 0, and its number in the
\* superblocks of the last and the middle AG, read back from the device
finish_metadata(s, fail) ==
    LET agcount == s.sb.sb_agcount
        a == libxfs_writebuf(s,
                 <<Wr("last_block", -1, -1, -1)>>
                 \o (IF s.xi.rtdev /\ s.geo.rtblocks > 0
                     THEN <<Wr("rt_last_block", -1, -1, -1)>> ELSE <<>>))
        b == libxfs_writebuf(a, <<Wr("freelist", 0, get_conf_val(s, "D_AGCOUNT") - 1, -1),
                                  Wr("root_inode", 0, 0, -1)>>)
        c == libxfs_writebuf(b,
                 (IF agcount > 1
                  THEN <<Wr("sb", agcount - 1, agcount - 1, s.sb.sb_inprogress)>>
                  ELSE <<>>)
                 \o (IF agcount > 2
                     THEN <<Wr("sb", (agcount - 1) \div 2, (agcount - 1) \div 2,
                               s.sb.sb_inprogress)>>
                     ELSE <<>>))
    IN  IF fail = "reserve" THEN writer_exit(a, fail)
        ELSE IF fail = "rootino" THEN writer_exit(b, fail)
        ELSE [c EXCEPT !.pc = "mark"]

\* main returns 0 without marking the filesystem ok
mark_ok_unmarked(s) == [s EXCEPT !.pc = "exit", !.code = 0]

\* "Mark the filesystem ok": the primary superblock with sb_inprogress = 0,
\* libxfs_umount, and main returns 0
mark_ok(s) ==
    [libxfs_writebuf(s, <<Wr("sb", 0, 0, 0)>>) EXCEPT !.pc = "exit", !.code = 0]

-----------------------------------------------------------------------------
(* The state machine *)

State ==
    [argv |-> argv, consumed |-> consumed, cli |-> cli, dev |-> dev, pc |-> pc,
     err |-> err, code |-> code, seen |-> seen, str_seen |-> str_seen,
     value |-> value, fl |-> fl, sb_feat |-> sb_feat, xi |-> xi, ft |-> ft,
     geo |-> geo, sb |-> sb]

\* main's flag locals, all cleared before the option loop
FlagNames ==
    {"blflag", "bsflag", "slflag", "ssflag", "lslflag", "lssflag", "daflag",
     "dasize", "ilflag", "imflag", "ipflag", "isflag", "liflag", "laflag",
     "lsflag", "lsuflag", "lsunitflag", "ldflag", "lvflag", "nlflag",
     "nsflag", "nvflag"}

\* the initialiser of sb_feat in main
InitialFeatures ==
    [finobt |-> 1, spinodes |-> 0, log_version |-> 2, attr_version |-> 2,
     dir_version |-> 2, inode_align |-> TRUE, nci |-> FALSE,
     lazy_sb_counters |-> TRUE, projid16bit |-> FALSE, crcs_enabled |-> TRUE,
     dirftype |-> TRUE, parent_pointers |-> FALSE, rmapbt |-> FALSE,
     reflink |-> FALSE]

ZeroSb ==
    [sb_versionnum |-> {}, sb_features2 |-> {}, sb_features_ro_compat |-> {},
     sb_features_incompat |-> {}, sb_blocklog |-> 0, sb_sectlog |-> 0,
     sb_agblklog |-> 0, sb_agblocks |-> 0, sb_inoalignmt |-> 0,
     sb_spino_align |-> 0, sb_inodesize |-> 0, sb_blocksize |-> 0,
     sb_dblocks |-> 0, sb_rblocks |-> 0, sb_rextents |-> 0, sb_logstart |-> 0,
     sb_rextsize |-> 0, sb_agcount |-> 0, sb_rbmblocks |-> 0,
     sb_logblocks |-> 0, sb_sectsize |-> 0, sb_inopblock |-> 0,
     sb_inodelog |-> 0, sb_inopblog |-> 0, sb_inprogress |-> 0,
     sb_imax_pct |-> 0, sb_fdblocks |-> 0, sb_unit |-> 0, sb_width |-> 0,
     sb_dirblklog |-> 0, sb_logsunit |-> 0, sb_logsectlog |-> 0,
     sb_logsectsize |-> 0]

\* the state of main() on entry to the option loop, for a command line a
\* with the switches c, run on the devices d
InitState(a, c, d) ==
    [argv |-> a, consumed |-> <<>>, cli |-> c, dev |-> d, pc |-> "getopt",
     err |-> NoErr, code |-> -1,
     seen |-> [o \in Subopts |-> FALSE],
     str_seen |-> [o \in Subopts |-> FALSE],
     value |-> InitialValue,
     fl |-> [f \in FlagNames |-> FALSE],
     sb_feat |-> InitialFeatures,
     xi |-> [dname |-> FALSE, logname |-> FALSE, rtname |-> FALSE,
             volname |-> FALSE, disfile |-> 0, lisfile |-> 0, risfile |-> 0,
             dcreat |-> 0, lcreat |-> 0, rcreat |-> 0,
             ddev |-> FALSE, logdev |-> FALSE, rtdev |-> FALSE,
             dsize |-> 0, logBBsize |-> 0, rtsize |-> 0],
     ft |-> [psectorsize |-> 0, lsectorsize |-> 0, dsunit |-> 0,
             dswidth |-> 0, rtswidth |-> 0],
     geo |-> [dfile |-> FALSE, dblocks |-> 0, logblocks |-> 0, rtblocks |-> 0,
              rtextblocks |-> 0, rtextents |-> 0, nbmblocks |-> 0,
              min_logblocks |-> 0, logstart |-> 0, lalign |-> 0, agf |-> {},
              asserts |-> {},
              created |-> {}, discarded |-> {}, writes |-> <<>>,
              accepted |-> FALSE, printed |-> FALSE],
     sb |-> ZeroSb]

Apply(t) ==
    /\ argv' = t.argv /\ consumed' = t.consumed /\ cli' = t.cli /\ dev' = t.dev
    /\ pc' = t.pc /\ err' = t.err /\ code' = t.code /\ seen' = t.seen
    /\ str_seen' = t.str_seen /\ value' = t.value /\ fl' = t.fl
    /\ sb_feat' = t.sb_feat /\ xi' = t.xi /\ ft' = t.ft /\ geo' = t.geo
    /\ sb' = t.sb /\ cvt' = cvt

\* no call of cvtnum is under examination
NoConversion ==
    [blksize |-> 0, sectsize |-> 0, i |-> U64(0), sfx |-> "", ret |-> "none",
     val |-> U64(0)]

NextOpt(x) == pc = "getopt" /\ argv # <<>> /\ OptName(Head(argv).opt) = x

OptB == NextOpt("b") /\ Apply(case_b(consume(State), Head(argv)))
OptD == NextOpt("d") /\ Apply(case_d(consume(State), Head(argv)))
OptI == NextOpt("i") /\ Apply(case_i(consume(State), Head(argv)))
OptL == NextOpt("l") /\ Apply(case_l(consume(State), Head(argv)))
OptM == NextOpt("m") /\ Apply(case_m(consume(State), Head(argv)))
OptN == NextOpt("n") /\ Apply(case_n(consume(State), Head(argv)))
OptR == NextOpt("r") /\ Apply(case_r(consume(State), Head(argv)))
OptS == NextOpt("s") /\ Apply(case_s(consume(State), Head(argv)))
EndOfOptions == pc = "getopt" /\ argv = <<>> /\ Apply(end_of_options(State))
BlockSizeDefaults == pc = "blocksize" /\ Apply(block_size_defaults(State))
DeviceTypes == pc = "devices" /\ Apply(device_types(State))
SectorSize == pc = "sectorsize" /\ Apply(sector_size(State))
FeatureChecks == pc = "features" /\ Apply(feature_checks(State))
Sizes == pc = "sizes" /\ Apply(sizes(State))
StripeFactors == pc = "stripe" /\ Apply(calc_stripe_factors(State))
LibxfsInit == pc = "init" /\ Apply(libxfs_init(State))
Subvolumes == pc = "subvolumes" /\ Apply(subvolumes(State))
AgSize == pc = "agsize" /\ Apply(ag_size(State))
AgAlign == pc = "agalign" /\ Apply(ag_align(State))
LastAg == pc = "aglast" /\ Apply(last_ag(State))
LogSize == pc = "logsize" /\ Apply(log_size(State))
SbInit == pc = "sbinit" /\ Apply(sb_init(State))
PrintGeometry == pc = "print" /\ Apply(print_geometry(State))
FillSuperblock == pc = "fill" /\ Apply(fill_superblock(State))
WriteStart == pc = "write" /\ \E f \in WriterFailures : Apply(write_start(State, f))
AgHeaders == pc = "ags" /\ Apply(ag_headers(State))
FinishMetadata ==
    pc = "finish" /\ \E f \in WriterFailures : Apply(finish_metadata(State, f))
MarkOk == pc = "mark" /\ Apply(mark_ok(State))

Next ==
    \/ OptB \/ OptD \/ OptI \/ OptL \/ OptM \/ OptN \/ OptR \/ OptS
    \/ EndOfOptions \/ BlockSizeDefaults \/ DeviceTypes \/ SectorSize
    \/ FeatureChecks \/ Sizes \/ StripeFactors \/ LibxfsInit \/ Subvolumes
    \/ AgSize \/ AgAlign \/ LastAg \/ LogSize \/ SbInit \/ PrintGeometry
    \/ FillSuperblock \/ WriteStart \/ AgHeaders \/ FinishMetadata \/ MarkOk

\* one step of main() as a function of the state, and a whole run
step(s) ==
    CASE s.pc = "getopt" -> IF s.argv # <<>> THEN getsubopt(s) ELSE end_of_options(s)
      [] s.pc = "blocksize" -> block_size_defaults(s)
      [] s.pc = "devices" -> device_types(s)
      [] s.pc = "sectorsize" -> sector_size(s)
      [] s.pc = "features" -> feature_checks(s)
      [] s.pc = "sizes" -> sizes(s)
      [] s.pc = "stripe" -> calc_stripe_factors(s)
      [] s.pc = "init" -> libxfs_init(s)
      [] s.pc = "subvolumes" -> subvolumes(s)
      [] s.pc = "agsize" -> ag_size(s)
      [] s.pc = "agalign" -> ag_align(s)
      [] s.pc = "aglast" -> last_ag(s)
      [] s.pc = "logsize" -> log_size(s)
      [] s.pc = "sbinit" -> sb_init(s)
      [] s.pc = "print" -> print_geometry(s)
      [] s.pc = "fill" -> fill_superblock(s)
      [] OTHER -> s

Terminal(s) == s.pc \in {"exit", "write"}

RECURSIVE run(_)
run(s) == IF Terminal(s) THEN s ELSE run(step(s))

-----------------------------------------------------------------------------
(* Inputs: command lines and devices *)

W(o, v) == [opt |-> o, str |-> v]

\* the command lines of at most MaxWrites writes over an alphabet
MaxWrites == 2
CmdsOver(A) == UNION {[1..n -> A] : n \in 0..MaxWrites}

Cli(npos, N) ==
    [npos |-> npos, Nflag |-> N, qflag |-> FALSE, discard |-> TRUE,
     force_overwrite |-> FALSE]

BlockDev(size) == [kind |-> "blk", size |-> size, signature |-> FALSE]
Topology(psect, lsect, sunit, swidth) ==
    [psectorsize |-> psect, lsectorsize |-> lsect, dsunit |-> sunit,
     dswidth |-> swidth, rtswidth |-> 0]
Devices(d, l, r, t, mtr) ==
    [d |-> d, l |-> l, r |-> r, ft |-> t, init_ok |-> TRUE, max_trans_res |-> mtr]

\* a 4 GiB block device with 512-byte sectors, a 64 MiB log device and a
\* 1 GiB realtime device
PlainDevices ==
    Devices(BlockDev(Pow2(23)), BlockDev(Pow2(17)), BlockDev(Pow2(21)),
            Topology(BBSIZE, BBSIZE, 0, 0), 855)

TextOpts == {"D_NAME", "L_DEV", "L_NAME", "R_DEV", "R_NAME", "M_UUID"}
FlagOpts == {o \in Subopts : opts[o].minval = 0 /\ opts[o].maxval = 1}

\* for every suboption: no value, and two values of its range
ParseVals(o) ==
    {Bare} \cup
    CASE o \in TextOpts -> {Text(2), Text(3)}
      [] o \in FlagOpts -> {Num(0), Num(1)}
      [] o \in {"B_LOG", "D_SECTLOG", "L_SECTLOG", "S_LOG", "S_SECTLOG"} -> {Num(12), Num(10)}
      [] o \in {"B_SIZE", "D_SECTSIZE", "L_SECTSIZE", "S_SIZE", "S_SECTSIZE"} ->
            {Num(4096), NumS(1, "k")}
      [] o \in {"D_SIZE", "R_SIZE"} -> {NumS(1, "g"), NumS(512, "m")}
      [] o = "D_AGSIZE" -> {NumS(256, "m"), NumS(128, "m")}
      [] o = "L_SIZE" -> {NumS(32, "m"), NumS(64, "m")}
      [] o \in {"D_SU", "L_SU", "R_EXTSIZE"} -> {NumS(64, "k"), NumS(32, "k")}
      [] o \in {"D_SUNIT", "D_SWIDTH"} -> {Num(128), Num(256)}
      [] o \in {"I_LOG"} -> {Num(9), Num(10)}
      [] o \in {"I_SIZE"} -> {Num(512), Num(1024)}
      [] o \in {"N_LOG"} -> {Num(12), Num(13)}
      [] o \in {"N_SIZE"} -> {Num(4096), NumS(8, "k")}
      [] o = "N_VERSION" -> {Num(2), Text(1)}
      [] o \in {"I_ATTR", "L_VERSION"} -> {Num(1), Num(2)}
      [] o = "I_MAXPCT" -> {Num(10), Num(25)}
      [] OTHER -> {Num(4), Num(8)}

ParseWrites == UNION {{W(o, v) : v \in ParseVals(o)} : o \in Subopts}

\* the suboptions the conflict list of o names
Peers(o) == {opts[o].conflicts[i].subopt : i \in DOMAIN opts[o].conflicts}

\* the alias groups: the suboptions that set one quantity, as a size or as
\* its logarithm
AliasGroups ==
    {{"B_LOG", "B_SIZE"}, {"I_LOG", "I_SIZE"}, {"N_LOG", "N_SIZE"},
     {"L_SECTLOG", "L_SECTSIZE"},
     {"D_SECTLOG", "D_SECTSIZE", "S_LOG", "S_SECTLOG", "S_SIZE", "S_SECTSIZE"}}

\* two suboptions the parser may relate: one name, one alias group, two
\* names of one device, or an entry in a conflict list
Related(a, b) ==
    \/ a = b
    \/ b \in Peers(a) \/ a \in Peers(b)
    \/ \E G \in AliasGroups \cup {{"L_DEV", "L_NAME"}, {"R_DEV", "R_NAME"}} :
          a \in G /\ b \in G

\* every command line of one write, and of two writes of related
\* suboptions, each bare and with two values
ParseCmds ==
    {<<>>} \cup {<<w>> : w \in ParseWrites}
    \cup {c \in [1..2 -> ParseWrites] : Related(c[1].opt, c[2].opt)}

Start(A, C, D) ==
    \E a \in A, c \in C, d \in D :
        LET t == InitState(a, c, d) IN
        /\ argv = t.argv /\ consumed = t.consumed /\ cli = t.cli /\ dev = t.dev
        /\ pc = t.pc /\ err = t.err /\ code = t.code /\ seen = t.seen
        /\ str_seen = t.str_seen /\ value = t.value /\ fl = t.fl
        /\ sb_feat = t.sb_feat /\ xi = t.xi /\ ft = t.ft /\ geo = t.geo
        /\ sb = t.sb /\ cvt = NoConversion

\* the parser: with or without the positional device name
InitParse == Start(ParseCmds, {Cli(0, FALSE), Cli(1, FALSE)}, {PlainDevices})

SpecParse == InitParse /\ [][Next]_vars

\* the features: every value that CRCs forbid or need, the block and inode
\* sizes that decide the inode alignment, a sector size, a log stripe unit
\* and a realtime device
FeatWrites ==
    {W("M_CRC", Num(0)), W("M_CRC", Num(1)), W("M_CRC", Bare),
     W("M_FINOBT", Num(0)), W("M_FINOBT", Num(1)), W("M_FINOBT", Bare),
     W("M_RMAPBT", Num(1)), W("M_REFLINK", Num(1)),
     W("I_SPINODES", Num(1)), W("I_SPINODES", Bare),
     W("N_FTYPE", Num(0)), W("I_ALIGN", Num(0)), W("I_PROJID32BIT", Num(0)),
     W("I_ATTR", Num(0)), W("I_ATTR", Num(1)), W("L_VERSION", Num(1)),
     W("L_LAZYSBCNTR", Num(0)),
     W("B_SIZE", NumS(64, "k")), W("I_SIZE", Num(2048)),
     W("S_SIZE", Num(4096)), W("D_SECTSIZE", Num(4096)),
     W("L_SU", NumS(32, "k")), W("R_DEV", Text(2))}

\* the devices of PlainDevices with the sector sizes psect / lsect
SectorDevices(psect, lsect) ==
    Devices(BlockDev(Pow2(23)), BlockDev(Pow2(17)), BlockDev(Pow2(21)),
            Topology(psect, lsect, 0, 0), 855)

SectorTopologies ==
    {SectorDevices(512, 512), SectorDevices(4096, 512), SectorDevices(4096, 4096)}

InitFeat == Start(CmdsOver(FeatWrites), {Cli(1, FALSE)}, SectorTopologies)

SpecFeat == InitFeat /\ [][Next]_vars

\* the six ways to write the sector size 2^n
SectorForms(n) ==
    {W("D_SECTLOG", Num(n)), W("S_LOG", Num(n)), W("S_SECTLOG", Num(n)),
     W("D_SECTSIZE", Num(Pow2(n))), W("S_SIZE", Num(Pow2(n))),
     W("S_SECTSIZE", Num(Pow2(n)))}

SectorLogs == XFS_MIN_SECTORSIZE_LOG..XFS_MAX_SECTORSIZE_LOG

\* what else the command line holds: nothing, a block size that admits
\* every sector size, an external log, and other ordinary options
SectorContexts ==
    {<<>>,
     <<W("B_SIZE", NumS(32, "k"))>>,
     <<W("L_DEV", Text(2))>>,
     <<W("B_SIZE", NumS(32, "k")), W("L_DEV", Text(2))>>,
     <<W("M_CRC", Num(0)), W("I_SIZE", Num(256))>>,
     <<W("B_SIZE", NumS(32, "k")), W("N_SIZE", NumS(64, "k")),
       W("R_EXTSIZE", NumS(64, "k"))>>}

SectorCmds ==
    {Append(c, w) : c \in SectorContexts,
                    w \in UNION {SectorForms(n) : n \in SectorLogs}}

InitSect ==
    Start(SectorCmds, {Cli(1, FALSE)},
          SectorTopologies \cup {SectorDevices(0, 512)})

SpecSect == InitSect /\ [][Next]_vars

\* the geometry: AG size and count, the size of the data subvolume, the
\* block size and D_NOALIGN, after a stripe geometry given in bytes or in
\* basic blocks, or none
GeomWrites ==
    {W("D_AGCOUNT", Num(1)), W("D_AGCOUNT", Num(4)), W("D_AGCOUNT", Num(1000)),
     W("D_AGCOUNT", Num(4000)),
     W("D_AGSIZE", NumS(16, "m")), W("D_AGSIZE", NumS(100, "m")),
     W("D_AGSIZE", NumS(1, "g")),
     W("D_SIZE", NumS(20, "m")), W("D_SIZE", NumS(1, "g")),
     W("B_SIZE", Num(1024)), W("B_SIZE", NumS(64, "k")),
     W("D_NOALIGN", Bare)}

StripePrefixes ==
    {<<>>,
     <<W("D_SU", NumS(64, "k")), W("D_SW", Num(4))>>,
     <<W("D_SUNIT", Num(96)), W("D_SWIDTH", Num(192))>>}

\* two ordinary command lines that between them use every option letter
TypicalCmds ==
    {<<W("B_SIZE", Num(4096)), W("D_AGCOUNT", Num(8)), W("I_SIZE", Num(512)),
       W("L_SIZE", NumS(32, "m"))>>,
     <<W("M_CRC", Num(0)), W("N_SIZE", NumS(8, "k")),
       W("R_EXTSIZE", NumS(64, "k")), W("S_SIZE", Num(512))>>}

GeomCmds ==
    {p \o c : p \in StripePrefixes, c \in CmdsOver(GeomWrites)} \cup TypicalCmds

\* data devices of 16 MiB, 4 GiB, 512 GiB and just under 1 TiB, plain or
\* striped (64 KiB x 4), or reporting an optimal I/O size (96 KiB) that is
\* no multiple of the minimum I/O size (64 KiB)
GeomDevices ==
    {Devices(BlockDev(size), BlockDev(Pow2(17)), BlockDev(Pow2(21)),
             Topology(BBSIZE, BBSIZE, t[1], t[2]), 855) :
        size \in {Pow2(15), Pow2(23), Pow2(30), IntMax},
        t \in {<<0, 0>>, <<128, 512>>, <<128, 192>>}}

InitGeom == Start(GeomCmds, {Cli(1, FALSE), Cli(1, TRUE)}, GeomDevices)

SpecGeom == InitGeom /\ [][Next]_vars

\* the log: its size, AG and stripe unit, with the size of the data
\* subvolume and of its AGs
LogWrites ==
    {W("L_SIZE", NumS(12, "m")), W("L_SIZE", NumS(32, "m")),
     W("L_SIZE", NumS(512, "m")), W("L_SIZE", NumS(32772, "k")),
     W("L_AGNUM", Num(0)), W("L_AGNUM", Num(1)), W("L_AGNUM", Num(7)),
     W("L_SU", NumS(64, "k")), W("L_INTERNAL", Bare),
     W("D_SIZE", NumS(1, "g")), W("D_SIZE", NumS(84, "m")),
     W("D_AGSIZE", NumS(64, "m")), W("D_AGCOUNT", Num(2))}

LogCmds == CmdsOver(LogWrites) \cup TypicalCmds

\* data devices of 84 MiB and of 4 GiB, plain or striped (64 KiB x 4)
LogDevices ==
    {Devices(BlockDev(size), BlockDev(Pow2(17)), BlockDev(Pow2(21)),
             Topology(BBSIZE, BBSIZE, t[1], t[2]), 855) :
        size \in {84 * 2048, Pow2(23)}, t \in {<<0, 0>>, <<128, 512>>}}

InitLog == Start(LogCmds, {Cli(1, FALSE), Cli(1, TRUE)}, LogDevices)

SpecLog == InitLog /\ [][Next]_vars

\* the runs on devices and image files: the flags -N, -q, -K and -f, a
\* block device (blank, or holding an old filesystem), an image file of
\* 128 MiB and a path that does not exist, ordinary and "-d file,size=1g"
\* command lines, and the options that fail each geometry check
RunCli(N, q, K, f) ==
    [npos |-> 1, Nflag |-> N, qflag |-> q, discard |-> ~K, force_overwrite |-> f]
RunClis ==
    {RunCli(FALSE, FALSE, FALSE, FALSE), RunCli(TRUE, FALSE, FALSE, FALSE),
     RunCli(TRUE, TRUE, FALSE, FALSE), RunCli(FALSE, TRUE, FALSE, FALSE),
     RunCli(FALSE, FALSE, TRUE, FALSE), RunCli(FALSE, FALSE, FALSE, TRUE),
     RunCli(TRUE, FALSE, TRUE, TRUE)}
RunTargets ==
    {BlockDev(Pow2(23)), [BlockDev(Pow2(23)) EXCEPT !.signature = TRUE],
     [kind |-> "reg", size |-> Pow2(18), signature |-> FALSE],
     [kind |-> "none", size |-> 0, signature |-> FALSE]}
RunDevices ==
    {Devices(d, BlockDev(Pow2(17)), BlockDev(Pow2(21)),
             Topology(BBSIZE, BBSIZE, 0, 0), 855) : d \in RunTargets}
RunWrites ==
    {W("D_AGSIZE", NumS(8, "g")), W("D_SUNIT", Num(9)), W("D_SWIDTH", Num(9)),
     W("D_AGCOUNT", Num(1)), W("L_SIZE", NumS(1, "m")), W("L_AGNUM", Num(7)),
     W("R_DEV", Text(2))}
RunPrefixes == {<<>>, <<W("D_FILE", Bare), W("D_SIZE", NumS(1, "g"))>>}
RunCmds ==
    {p \o c : p \in RunPrefixes, c \in CmdsOver(RunWrites)} \cup TypicalCmds
InitRun == Start(RunCmds, RunClis, RunDevices)
SpecRun == InitRun /\ [][Next]_vars

\* cvtnum alone: the numbers m * 2^k below 2^64 and 2^64 - 1, every unit
\* suffix and one that is none, with and without block and sector size
Shl64(x, k) ==
    LET q == k \div 8
        r == Pow2(k % 8)
        limb(i) == IF i < 1 THEN 0 ELSE x[i]
        out(i) == ((limb(i - q) * r) % 256) + ((limb(i - q - 1) * r) \div 256)
    IN  <<out(1), out(2), out(3), out(4), out(5), out(6), out(7), out(8)>>
\* the number of bits of x
BitLen(x) ==
    IF x = U64(0) THEN 0
    ELSE LET top == CHOOSE i \in 1..8 : x[i] # 0 /\ \A j \in (i + 1)..8 : x[j] = 0
         IN  8 * (top - 1) + libxfs_highbit32(x[top]) + 1
CvtMantissas == {0, 1, 3, 5, 255}
CvtNumbers ==
    UNION {{Shl64(U64(m), k) : k \in {j \in 0..63 : BitLen(U64(m)) + j <= 64}} :
           m \in CvtMantissas}
    \cup {<<255, 255, 255, 255, 255, 255, 255, 255>>}
CvtSuffixes == {"", "b", "s", "k", "m", "g", "t", "p", "e", "x"}
CvtSizes == {<<0, 0>>, <<4096, 512>>, <<65536, 32768>>}
Cvtnum ==
    /\ cvt.ret = "pending"
    /\ cvt' = [cvt EXCEPT
                    !.ret = cvtnum_u64(cvt.blksize, cvt.sectsize, cvt.i, cvt.sfx).ret,
                    !.val = cvtnum_u64(cvt.blksize, cvt.sectsize, cvt.i, cvt.sfx).val]
    /\ UNCHANGED <<argv, consumed, cli, dev, pc, err, code, seen, str_seen,
                   value, fl, sb_feat, xi, ft, geo, sb>>
InitCvt ==
    /\ \E n \in CvtNumbers, x \in CvtSuffixes, z \in CvtSizes :
           cvt = [blksize |-> z[1], sectsize |-> z[2], i |-> n, sfx |-> x,
                   ret |-> "pending", val |-> U64(0)]
    /\ LET t == InitState(<<>>, Cli(1, FALSE), PlainDevices) IN
        /\ argv = t.argv /\ consumed = t.consumed /\ cli = t.cli /\ dev = t.dev
        /\ pc = t.pc /\ err = t.err /\ code = t.code /\ seen = t.seen
        /\ str_seen = t.str_seen /\ value = t.value /\ fl = t.fl
        /\ sb_feat = t.sb_feat /\ xi = t.xi /\ ft = t.ft /\ geo = t.geo
        /\ sb = t.sb
SpecCvt == InitCvt /\ [][Cvtnum]_vars

\* values in filesystem blocks and in sectors, before and after the
\* options that give the block and the sector size
UnitWrites ==
    {W("B_SIZE", Num(4096)), W("B_LOG", Num(10)), W("S_SIZE", Num(512)),
     W("D_SECTLOG", Num(10)), W("D_SIZE", NumS(65536, "b")),
     W("D_SIZE", NumS(524288, "s")), W("D_AGSIZE", NumS(16384, "b")),
     W("L_SIZE", NumS(4096, "b")), W("L_SIZE", NumS(32768, "s")),
     W("D_SU", NumS(16, "b")), W("R_EXTSIZE", NumS(128, "s")),
     W("D_AGCOUNT", Num(4))}
UnitCmds == CmdsOver(UnitWrites) \cup TypicalCmds
InitUnit == Start(UnitCmds, {Cli(1, FALSE), Cli(1, TRUE)}, {PlainDevices})
SpecUnit == InitUnit /\ [][Next]_vars

\* a stripe of zero written out, alone and before the options of the AG
\* geometry, on plain and on striped devices
ZeroStripe == <<W("D_SUNIT", Num(0)), W("D_SWIDTH", Num(0))>>
StripeWrites ==
    {W("D_AGCOUNT", Num(4)), W("D_AGSIZE", NumS(1, "g")),
     W("D_SIZE", NumS(1, "g")), W("B_SIZE", Num(1024)),
     W("L_SIZE", NumS(32, "m")), W("D_NOALIGN", Bare),
     W("L_VERSION", Num(1)), W("M_CRC", Num(0))}
StripeCmds ==
    {p \o c : p \in {<<>>, ZeroStripe}, c \in CmdsOver(StripeWrites)}
    \cup TypicalCmds
InitStripe == Start(StripeCmds, {Cli(1, FALSE), Cli(1, TRUE)}, LogDevices)
SpecStripe == InitStripe /\ [][Next]_vars

\* the AG of the internal log: the sizes of the AGs and of the log, with a
\* log that fills its AG to the end and AGs one block longer than the log
\* and its stripe unit, after a log stripe unit or none
AgWrites ==
    {W("D_AGSIZE", NumS(64, "m")), W("D_AGSIZE", NumS(16388, "k")),
     W("L_SIZE", NumS(65472, "k")), W("L_SIZE", NumS(16320, "k")),
     W("L_SIZE", NumS(12, "m")), W("L_AGNUM", Num(0)),
     W("D_AGCOUNT", Num(2)), W("D_SIZE", NumS(84, "m")),
     W("L_INTERNAL", Num(0))}

AgPrefixes == {<<>>, <<W("L_SU", NumS(64, "k"))>>}

AgCmds ==
    {p \o c : p \in AgPrefixes, c \in CmdsOver(AgWrites)} \cup TypicalCmds

InitAg == Start(AgCmds, {Cli(1, FALSE), Cli(1, TRUE)}, LogDevices)

SpecAg == InitAg /\ [][Next]_vars

-----------------------------------------------------------------------------
(* The properties of the option parser *)

\* the run has ended or has reached the writer / has ended with exit(1) /
\* has an accepted geometry, which the writer has not begun to use
Done == pc \in {"exit", "write"}
Rejected == pc = "exit" /\ code = 1
Accepted == geo.accepted /\ geo.writes = <<>>

\* the writes i and j of the command line consumed so far
Wrote(i, j, a, b) ==
    /\ i \in DOMAIN consumed /\ j \in DOMAIN consumed /\ i < j
    /\ consumed[i].opt = a /\ consumed[j].opt = b

\* the number a write hands to the program: the flag value when bare
UserVal(w) == IF w.str.k = "bare" THEN opts[w.opt].flagval ELSE w.str.n

\* C1: a command line that writes the same suboption name twice ends with
\* a Respecified error and exit 1, whatever the values and also for bare
\* flags; a run that gets past the options has not named the data device
\* both with -d name and positionally.
C1_SecondWriteRespecified ==
    /\ \A o \in Subopts :
          (Done /\ \E i, j \in DOMAIN consumed : Wrote(i, j, o, o))
              => Rejected /\ err.kind = "Respecified"
    /\ (cli.npos = 1 /\ \E i \in DOMAIN consumed : consumed[i].opt = "D_NAME")
          => pc = "getopt" \/ (Rejected /\ err.kind \in {"Respecified", "RequiredValueMissing"})

\* C2: a command line that writes two different members of one alias group
\* is rejected with exit 1, in either order and whatever the values.
C2_AliasMembersRejected ==
    \A G \in AliasGroups : \A a \in G : \A b \in G \ {a} :
        (Done /\ \E i, j \in DOMAIN consumed : Wrote(i, j, a, b)) => Rejected

BSizeThenBLog == <<W("B_SIZE", Num(4096)), W("B_LOG", Num(12))>>

C5_ConflictClosure ==
    \A a \in Subopts : \A k \in DOMAIN opts[a].conflicts :
        LET e == opts[a].conflicts[k] IN
        (/\ ~e.test_values
         /\ Done
         /\ \E i, j \in DOMAIN consumed :
               Wrote(i, j, a, e.subopt) \/ Wrote(i, j, e.subopt, a))
            => Rejected /\ err.kind = "Conflict"

\* C6: a write of S with the value at_value after a write of P with the
\* value invalid_value, for a conditional entry of S, ends with the conflict
\* of that entry; and a conflict error naming a conditional entry is raised
\* only for a command line whose writes have these two values.
C6_ConditionalConflict ==
    /\ \A a \in Subopts : \A k \in DOMAIN opts[a].conflicts :
          LET e == opts[a].conflicts[k] IN
          (/\ e.test_values
           /\ Done
           /\ \E i, j \in DOMAIN consumed :
                 /\ Wrote(i, j, e.subopt, a)
                 /\ UserVal(consumed[i]) = e.invalid_value
                 /\ UserVal(consumed[j]) = e.at_value)
              => Rejected /\ err.kind = "Conflict"
    /\ (/\ err.kind = "Conflict" /\ err.entry >= 1
        /\ opts[err.subopt].conflicts[err.entry].test_values)
          => LET e == opts[err.subopt].conflicts[err.entry] IN
             \E i, j \in DOMAIN consumed :
                 /\ Wrote(i, j, e.subopt, err.subopt)
                 /\ UserVal(consumed[i]) = e.invalid_value
                 /\ UserVal(consumed[j]) = e.at_value

-----------------------------------------------------------------------------
(* The sector size forms *)

\* a write of the option o is among those read so far
Written(o) == \E i \in DOMAIN consumed : consumed[i].opt = o
\* ... with the value v
WrittenVal(o, v) ==
    \E i \in DOMAIN consumed : consumed[i].opt = o /\ UserVal(consumed[i]) = v

\* the end of the run of this command line with w as its last word
RunWith(ctx, w) == run([State EXCEPT !.argv = Append(ctx, w)])

\* C4: for every n, device topology and log placement, the six runs that
\* differ only in the form of the sector size 2^n are all rejected, or all
\* accepted with the data sector size 2^n, the sector log n and one and the
\* same log sector size and log.
C4_SectorFormsEquivalent ==
    \A n \in SectorLogs :
        (/\ pc = "getopt" /\ consumed = <<>> /\ argv # <<>>
         /\ argv[Len(argv)] = W("D_SECTLOG", Num(n)))
        => LET ctx == SubSeq(argv, 1, Len(argv) - 1)
               ends == {RunWith(ctx, w) : w \in SectorForms(n)}
           IN  \/ \A f \in ends : f.pc = "exit" /\ f.code = 1
               \/ \A f \in ends :
                     /\ f.geo.accepted
                     /\ get_conf_val(f, "D_SECTSIZE") = Pow2(n)
                     /\ get_conf_val(f, "D_SECTLOG") = n
                     /\ \A g \in ends :
                           /\ get_conf_val(g, "L_SECTSIZE")
                                = get_conf_val(f, "L_SECTSIZE")
                           /\ get_conf_val(g, "L_SECTLOG")
                                = get_conf_val(f, "L_SECTLOG")

-----------------------------------------------------------------------------
(* The feature set *)

\* C7: in every accepted run, at the geometry print and at the writer, CRCs
\* enabled imply aligned inodes, the version 2 log, version 2 attributes,
\* 32 bit project IDs, lazy superblock counters and the directory ftype.
C7_CrcImplies ==
    (Accepted /\ sb_feat.crcs_enabled)
        => /\ sb_feat.inode_align
           /\ sb_feat.log_version = 2
           /\ sb_feat.attr_version = 2
           /\ ~sb_feat.projid16bit
           /\ sb_feat.lazy_sb_counters
           /\ sb_feat.dirftype

CrcOnly == {"M_FINOBT", "M_RMAPBT", "M_REFLINK", "I_SPINODES"}

\* C8: in every accepted run without CRCs finobt, rmapbt, reflink and
\* sparse inodes are off in the feature set and in the superblock; a run
\* that does not write -m finobt never ends with the finobt error; and a
\* command line with -m crc=0 and one of the four written as 1 ends with
\* exit 1.
C8_CrcDisabled ==
    /\ (Accepted /\ ~sb_feat.crcs_enabled)
          => /\ sb_feat.finobt = 0 /\ sb_feat.spinodes = 0
             /\ ~sb_feat.rmapbt /\ ~sb_feat.reflink
             /\ sb.sb_features_ro_compat = {}
             /\ "SPINODES" \notin sb.sb_features_incompat
    /\ ~Written("M_FINOBT")
          => err # Err("CrcFeature", "M_FINOBT", "M_CRC", 0)
    /\ (WrittenVal("M_CRC", 0) /\ \E o \in CrcOnly : WrittenVal(o, 1))
          => ~Accepted /\ (Done => Rejected)

\* -m crc=0 alone: accepted and written with the default finobt turned off
C8_Witness ==
    /\ pc = "write" /\ Accepted /\ ~sb_feat.crcs_enabled
    /\ WrittenVal("M_CRC", 0) /\ ~Written("M_FINOBT")
    /\ InitialFeatures.finobt = 1 /\ sb_feat.finobt = 0

CrcForbidden ==
    {W("N_FTYPE", Num(0)), W("I_ALIGN", Num(0)), W("I_PROJID32BIT", Num(0)),
     W("I_ATTR", Num(0)), W("I_ATTR", Num(1)), W("L_VERSION", Num(1)),
     W("L_LAZYSBCNTR", Num(0))}

\* C9: a command line that writes a value forbidden under CRCs and does
\* not write -m crc=0 has no accepted geometry on any device topology: it
\* ends with exit 1 and nothing written or discarded.
C9_CrcForbiddenRejected ==
    (/\ \E i \in DOMAIN consumed : consumed[i] \in CrcForbidden
     /\ ~WrittenVal("M_CRC", 0))
        => /\ ~Accepted
           /\ Done => (Rejected /\ geo.discarded = {})

-----------------------------------------------------------------------------
(* The allocation groups *)

C11_AgCoverage ==
    Accepted
        => LET bl == get_conf_val(State, "B_LOG")
               agsize == get_conf_val(State, "D_AGSIZE")
               agcount == get_conf_val(State, "D_AGCOUNT")
               dblocks == geo.dblocks
           IN  /\ agcount - 1 <= dblocks \div agsize
               /\ AgCountFor(dblocks, agsize) <= agcount
               /\ dblocks - (agcount - 1) * agsize >= XFS_AG_MIN_BLOCKS(bl)

-----------------------------------------------------------------------------
(* The internal log *)

\* the length of the AG agno: the last one holds what is left of dblocks
AgLength(agno) ==
    IF agno = get_conf_val(State, "D_AGCOUNT") - 1
    THEN geo.dblocks - agno * get_conf_val(State, "D_AGSIZE")
    ELSE get_conf_val(State, "D_AGSIZE")

\* C12: in every accepted geometry with an internal log, the log is no
\* larger than an AG less its static metadata, and it lies after that
\* metadata within the actual length of the AG L_AGNUM, an AG of the
\* filesystem.
C12_LogInsideAg ==
    (Accepted /\ get_conf_val(State, "L_INTERNAL") # 0)
        => LET agno == get_conf_val(State, "L_AGNUM")
               agbno == geo.logstart % Pow2(sb.sb_agblklog)
           IN  /\ geo.logblocks
                     <= get_conf_val(State, "D_AGSIZE")
                        - libxfs_prealloc_blocks(State)
               /\ agno < get_conf_val(State, "D_AGCOUNT")
               /\ geo.logstart \div Pow2(sb.sb_agblklog) = agno
               /\ agbno >= libxfs_prealloc_blocks(State)
               /\ agbno + geo.logblocks <= AgLength(agno)

-----------------------------------------------------------------------------
(* The stripe geometry *)

\* C13: in every accepted geometry with a data stripe unit, given by the
\* user or reported by the device, the stripe width and the AG size are
\* multiples of the stripe unit, in the option values and in the superblock.
C13_StripeDivides ==
    (Accepted /\ get_conf_val(State, "D_SUNIT") > 0)
        => /\ get_conf_val(State, "D_SWIDTH") % get_conf_val(State, "D_SUNIT") = 0
           /\ get_conf_val(State, "D_AGSIZE") % get_conf_val(State, "D_SUNIT") = 0
           /\ pc = "write" => /\ sb.sb_unit = get_conf_val(State, "D_SUNIT")
                              /\ sb.sb_width = get_conf_val(State, "D_SWIDTH")

-----------------------------------------------------------------------------
(* The sizes and their logarithms *)

\* the value of size option o is 2^(value of log option l), l within lo..hi
SizeIsLog(o, l, lo, hi) ==
    /\ get_conf_val(State, l) \in lo..hi
    /\ get_conf_val(State, o) = Pow2(get_conf_val(State, l))

\* C14: in every accepted geometry the block size, the data and the log
\* sector size, the inode size and the directory block size are each
\* 1 << their log option, and the log lies within the declared range.
C14_SizesArePowers ==
    Accepted
        => /\ SizeIsLog("B_SIZE", "B_LOG",
                        XFS_MIN_BLOCKSIZE_LOG, XFS_MAX_BLOCKSIZE_LOG)
           /\ SizeIsLog("D_SECTSIZE", "D_SECTLOG",
                        XFS_MIN_SECTORSIZE_LOG, XFS_MAX_SECTORSIZE_LOG)
           /\ SizeIsLog("L_SECTSIZE", "L_SECTLOG",
                        XFS_MIN_SECTORSIZE_LOG, XFS_MAX_SECTORSIZE_LOG)
           /\ SizeIsLog("I_SIZE", "I_LOG",
                        XFS_DINODE_MIN_LOG, XFS_DINODE_MAX_LOG)
           /\ SizeIsLog("N_SIZE", "N_LOG",
                        XFS_MIN_BLOCKSIZE_LOG, XFS_MAX_BLOCKSIZE_LOG)

\* the command line gives su=64k, sw=4 and agcount=4 and the data section
\* holds 4 GiB of 4 KiB blocks
StaggerExample ==
    /\ Written("D_SU") /\ get_conf_val(State, "D_SU") = 65536
    /\ WrittenVal("D_SW", 4)
    /\ WrittenVal("D_AGCOUNT", 4)
    /\ get_conf_val(State, "B_LOG") = 12 /\ geo.dblocks = Pow2(20)

\* C15: in every accepted geometry with a stripe width above the stripe
\* unit and more than one AG the AG size is no multiple of the stripe
\* width; for su=64k, sw=4, agcount=4 on 4 GiB the AG size is a multiple of
\* 16 and not of 64 blocks, in 4 or 5 AGs.
C15_AgStagger ==
    LET agsize == get_conf_val(State, "D_AGSIZE")
        agcount == get_conf_val(State, "D_AGCOUNT")
        dsunit == get_conf_val(State, "D_SUNIT")
        dswidth == get_conf_val(State, "D_SWIDTH")
    IN  /\ (Accepted /\ dswidth > dsunit /\ dsunit > 0 /\ agcount > 1)
                => agsize % dswidth # 0
        /\ (Accepted /\ StaggerExample)
                => /\ dsunit = 16 /\ dswidth = 64
                   /\ agsize % 16 = 0 /\ agsize % 64 # 0
                   /\ agcount \in {4, 5}

-----------------------------------------------------------------------------
(* The size of the internal log *)

\* the command line is -l size=512m -d size=1g with 4 KiB blocks on a data
\* device that holds 1 GiB
LogExample ==
    /\ Len(consumed) = 2 /\ argv = <<>>
    /\ Written("L_SIZE") /\ get_conf_val(State, "L_SIZE") = 512 * Pow2(20)
    /\ Written("D_SIZE") /\ get_conf_val(State, "D_SIZE") = Pow2(21)
    /\ get_conf_val(State, "B_LOG") = 12 /\ dev.d.size >= Pow2(21)

\* "size N too large for internal log" / "internal log size N too large,
\* must fit in allocation group"
LogTooLargeForData == Err("GeometryImpossible", "L_SIZE", "D_SIZE", 0)
LogTooLargeForAg == Err("GeometryImpossible", "L_SIZE", "D_AGSIZE", 1)

\* the log size check finds a user-sized internal log of at least the data
\* blocks and ends the run with "size N too large for internal log"
LogAtLeastDataRejected ==
    (/\ pc = "logsize"
     /\ get_conf_val(State, "L_INTERNAL") # 0 /\ get_conf_val(State, "L_SIZE") # 0
     /\ geo.logblocks >= geo.dblocks)
        => pc' = "exit" /\ code' = 1 /\ err' = LogTooLargeForData

\* C16 as stated: -l size=512m -d size=1g ends with exit 1 and "size 131072
\* too large for internal log", and so does every user-sized internal log
\* of at least the data blocks.
C16_LogExampleData ==
    /\ [](Done /\ LogExample => Rejected /\ err = LogTooLargeForData)
    /\ [][LogAtLeastDataRejected]_vars

\* C16: -l size=512m -d size=1g has 131072 log blocks, fewer than the
\* data blocks, and ends with exit 1 and "internal log size 131072
\* too large, must fit in allocation group"; every user-sized internal log
\* of at least the data blocks ends at the log size check with exit 1 and
\* "size N too large for internal log".
C16_LogExampleAg ==
    /\ [](Done /\ LogExample
            => /\ Rejected /\ err = LogTooLargeForAg
               /\ geo.logblocks = 131072 /\ geo.logblocks < geo.dblocks)
    /\ [][LogAtLeastDataRejected]_vars

C16_Witness == Done /\ LogExample /\ err = LogTooLargeForAg

\* a user-sized internal log of at least the data blocks is rejected
C16_WitnessData ==
    /\ Rejected /\ err = LogTooLargeForData
    /\ get_conf_val(State, "L_INTERNAL") # 0 /\ geo.logblocks >= geo.dblocks

-----------------------------------------------------------------------------
(* The writer *)

\* write i of the run is a superblock of AG 0 / of another AG
PrimarySb(i) == geo.writes[i].what = "sb" /\ geo.writes[i].lo = 0
SecondarySb(i) == geo.writes[i].what = "sb" /\ geo.writes[i].lo > 0
\* the writes that clear sb_inprogress
Cleared == {i \in DOMAIN geo.writes : PrimarySb(i) /\ geo.writes[i].inprogress = 0}
\* a write of kind what to the AGs lo..hi precedes write i
Before(i, what, lo, hi) ==
    \E j \in 1..(i - 1) :
        /\ geo.writes[j].what = what
        /\ geo.writes[j].lo <= lo /\ hi <= geo.writes[j].hi

\* C17: the first write of the primary superblock has sb_inprogress = 1 and
\* precedes every AG header, log and secondary superblock write; the write
\* with sb_inprogress = 0 is made once, by the run that returns 0, as its
\* last write, after the headers of every AG, the free lists, the root
\* inode and the root inode number in the secondary superblocks; every
\* other run that wrote the primary superblock left sb_inprogress = 1 in it.
C17_InProgress ==
    LET w == geo.writes
        agcount == sb.sb_agcount
        first == MinOf({i \in DOMAIN w : PrimarySb(i)})
        last == CHOOSE i \in DOMAIN w : PrimarySb(i) /\ \A j \in DOMAIN w : PrimarySb(j) => j <= i
    IN  /\ \A i \in DOMAIN w :
               (w[i].what \in {"ag", "log", "freelist", "root_inode"} \/ SecondarySb(i))
                   => /\ \E j \in 1..(i - 1) : PrimarySb(j)
                      /\ w[first].inprogress = 1
        /\ Cardinality(Cleared) <= 1
        /\ \A i \in Cleared :
               /\ i = Len(w) /\ pc = "exit" /\ code = 0
               /\ Before(i, "ag", 0, 0)
               /\ agcount > 1 => Before(i, "ag", 1, agcount - 1)
               /\ Before(i, "freelist", 0, agcount - 1)
               /\ Before(i, "root_inode", 0, 0)
               /\ agcount > 1 => Before(i, "sb", agcount - 1, agcount - 1)
               /\ agcount > 2 => Before(i, "sb", (agcount - 1) \div 2, (agcount - 1) \div 2)
        /\ (pc = "exit" /\ code = 0 /\ ~cli.Nflag) => Cleared # {}
        /\ ((\E i \in DOMAIN w : PrimarySb(i)) /\ ~(pc = "exit" /\ code = 0))
               => w[last].inprogress = 1

\* a run has written everything and cleared sb_inprogress / has stopped in
\* the writer after the first superblock
C17_Witness == Cleared # {} /\ sb.sb_agcount > 2
C17_WitnessStopped ==
    /\ Rejected /\ err.kind = "WriterFailed"
    /\ \E i \in DOMAIN geo.writes : PrimarySb(i)

-----------------------------------------------------------------------------
(* The dry run and the discards *)

\* the whole run of this command line on these devices with and without -N
DryRun == run([State EXCEPT !.cli.Nflag = TRUE])
RealRun == run([State EXCEPT !.cli.Nflag = FALSE])

\* with -N nothing is discarded, created or written and the writer is never
\* entered; the run ends with exit 0 only after the geometry is printed
DryRunModifiesNothing ==
    cli.Nflag
        => /\ geo.discarded = {} /\ geo.created = {} /\ geo.writes = <<>>
           /\ pc \notin {"fill", "write", "ags", "finish", "mark"}
           /\ pc = "exit" => /\ code \in {0, 1}
                             /\ code = 0 => (geo.accepted /\ geo.printed)

\* C18: with -N no device or file is discarded, zeroed, created or written;
\* the run ends with exit 0 right after the geometry print exactly when the
\* run without -N passes all validation and reaches the writer, and with
\* exit 1 and the same error exactly when the run without -N does.
C18_DryRun ==
    /\ DryRunModifiesNothing
    /\ (pc = "getopt" /\ consumed = <<>>)
           => /\ (DryRun.code = 0) = (RealRun.pc = "write")
              /\ (DryRun.code = 1) = (RealRun.code = 1)
              /\ DryRun.code = 1 => DryRun.err = RealRun.err

\* the subvolume v is a regular file
IsFile(v) == xi[CASE v = "d" -> "disfile" [] v = "l" -> "lisfile" [] OTHER -> "risfile"] # 0

\* C19: a device is discarded only without -K and -N, only when it is no
\* regular file, and only once the geometry is accepted: a run that ends
\* with exit 1 at a geometry check (AG geometry, stripe alignment, log
\* size, log AG number) has discarded nothing.
C19_DiscardAfterAccept ==
    /\ geo.discarded # {} => (cli.discard /\ ~cli.Nflag)
    /\ \A v \in geo.discarded : ~IsFile(v)
    /\ geo.discarded # {} => (geo.accepted \/ Rejected)
    /\ (Rejected /\ err.kind = "GeometryImpossible") => geo.discarded = {}

\* the discards come without -K and -N and never on a regular file
DiscardOnlyWhenAllowed ==
    /\ geo.discarded # {} => (cli.discard /\ ~cli.Nflag)
    /\ \A v \in geo.discarded : ~IsFile(v)

-----------------------------------------------------------------------------
(* The conversion of numbers *)

\* the base-2 logarithm of the multiplier of the call
CvtShift ==
    CASE cvt.sfx = "b" -> libxfs_highbit32(cvt.blksize)
      [] cvt.sfx = "s" -> libxfs_highbit32(cvt.sectsize)
      [] OTHER -> 10 * SuffixPower(cvt.sfx)
\* the call has returned, for a unit suffix whose multiplier is set
CvtReturned ==
    /\ cvt.ret \notin {"none", "pending"}
    /\ cvt.sfx \in {"b", "s", "k", "m", "g", "t", "p", "e"}
    /\ cvt.sfx = "b" => cvt.blksize # 0
    /\ cvt.sfx = "s" => cvt.sectsize # 0
\* n * multiplier is 2^64 or more
CvtOverflows == cvt.i # U64(0) /\ BitLen(cvt.i) + CvtShift > 64

\* C20: for every 64-bit n and every suffix of b, s, k, m, g, t, p, e (block
\* and sector size set for b and s) cvtnum returns success with exactly
\* n * multiplier when that is below 2^64, and the overflow error when it
\* is 2^64 or more.
C20_CvtnumExact ==
    CvtReturned
        => IF CvtOverflows THEN cvt.ret = "ERANGE"
           ELSE cvt.ret = "OK" /\ cvt.val = Shl64(cvt.i, CvtShift)

-----------------------------------------------------------------------------
(* Values in blocks and sectors *)

BlockSizeOpts == {"B_SIZE", "B_LOG"}
SectorSizeOpts ==
    {"D_SECTSIZE", "D_SECTLOG", "S_SIZE", "S_SECTSIZE", "S_LOG", "S_SECTLOG"}
\* write i gives a number with the suffix b or s to a suboption that
\* takes units
UnitWrite(i) ==
    /\ consumed[i].str.k = "num" /\ consumed[i].str.sfx \in {"b", "s"}
    /\ opts[consumed[i].opt].convert
\* the block size (suffix b) or sector size (suffix s) the writes before
\* write i have given, the last of them when there are several, 0 when
\* none has
BaseOf(i) ==
    LET O == IF consumed[i].str.sfx = "b" THEN BlockSizeOpts ELSE SectorSizeOpts
        J == {j \in 1..(i - 1) : consumed[j].opt \in O}
    IN  IF J = {} THEN 0
        ELSE LET w == consumed[CHOOSE j \in J : \A k \in J : k <= j]
             IN  IF w.opt \in {"B_SIZE", "D_SECTSIZE", "S_SIZE", "S_SECTSIZE"}
                 THEN w.str.n
                 ELSE Pow2(w.str.n)
\* n * size, in the unit the value of the suboption is held in
Denoted(i) ==
    (consumed[i].str.n * BaseOf(i))
        \div (IF consumed[i].opt \in SizeInBB THEN BBSIZE ELSE 1)
\* the parser has just read write i and goes on
JustRead(i) == i = Len(consumed) /\ pc = "getopt"

\* C21: a value with the suffix b (s) is accepted only after the block
\* (sector) size has been written on the same command line, and then is
\* n times that size; with the size written later or not at all the run
\* ends at that value with the unit-unknown error (or with the
\* respecification or conflict the suboption has with an earlier write),
\* the defaults are never used.
C21_UnitsNeedBase ==
    \A i \in DOMAIN consumed :
        UnitWrite(i) =>
            IF BaseOf(i) = 0
            THEN /\ i = Len(consumed) /\ Rejected
                 /\ \/ err.kind = "UnitUnknown"
                    \/ /\ err.kind \in {"Respecified", "Conflict"}
                       /\ \E j \in 1..(i - 1) :
                              Related(consumed[j].opt, consumed[i].opt)
            ELSE JustRead(i) => value[consumed[i].opt] = Denoted(i)
\* C21 as worded: ... every such run ends with the unit-unknown error.
C21_UnitUnknownOnly ==
    \A i \in DOMAIN consumed :
        UnitWrite(i) =>
            IF BaseOf(i) = 0
            THEN i = Len(consumed) /\ Rejected /\ err.kind = "UnitUnknown"
            ELSE JustRead(i) => value[consumed[i].opt] = Denoted(i)
C21_Witness ==
    /\ consumed = <<W("B_SIZE", Num(4096)), W("D_SIZE", NumS(65536, "b"))>>
    /\ JustRead(2) /\ value["D_SIZE"] = 524288
C21_WitnessUnknown ==
    /\ consumed = <<W("D_SIZE", NumS(65536, "b"))>> /\ argv # <<>>
    /\ Head(argv).opt = "B_SIZE" /\ Rejected /\ err.kind = "UnitUnknown"

-----------------------------------------------------------------------------
(* The log size the user gives *)

\* the bytes a write of a size names
UserBytes(w) == w.str.n * Pow2(10 * SuffixPower(w.str.sfx))
\* the log size of the command line, in filesystem blocks
UserLogBlocks ==
    LET i == CHOOSE j \in DOMAIN consumed : consumed[j].opt = "L_SIZE"
    IN  UserBytes(consumed[i]) \div value["B_SIZE"]

\* C22: with -l size given, every accepted run has exactly that many log
\* blocks (the bytes given divided by the block size); a size that cannot
\* be used ends the run instead.
C22_LogSizeKept ==
    Accepted /\ Written("L_SIZE") => geo.logblocks = UserLogBlocks

-----------------------------------------------------------------------------
(* A stripe of zero *)

\* the end of the run of the same command line on the same devices, the
\* data device reporting no stripe
NoStripeRun ==
    run(InitState(consumed \o argv, cli,
                  [dev EXCEPT !.ft.dsunit = 0, !.ft.dswidth = 0]))

\* C23: with -d sunit=0 and -d swidth=0 both written, the accepted
\* geometry has no data stripe whatever the device reports: d_sunit and
\* d_swidth are 0 and the AG size is the one of a device without stripe.
C23_ZeroStripeIsNoalign ==
    Accepted /\ WrittenVal("D_SUNIT", 0) /\ WrittenVal("D_SWIDTH", 0)
        => /\ value["D_SUNIT"] = 0 /\ value["D_SWIDTH"] = 0
           /\ sb.sb_unit = 0 /\ sb.sb_width = 0
           /\ value["D_AGSIZE"] = NoStripeRun.value["D_AGSIZE"]

-----------------------------------------------------------------------------
(* The log stripe unit of the superblock *)

\* the superblock is being filled in from the geometry solved
Filling == pc = "fill" /\ pc' = "write"

\* C24 as worded: sb_logsunit is the final log stripe unit, in blocks,
\* times the block size for a version 2 log, for every unit including 0,
\* and 0 for a version 1 log.
C24_LogSunitBytesAlways ==
    [][Filling =>
        sb'.sb_logsunit =
            IF sb_feat.log_version = 2
            THEN value["L_SUNIT"] * value["B_SIZE"] ELSE 0]_vars
\* C24: sb_logsunit is the final log stripe unit, in blocks, times the
\* block size for a version 2 log with a stripe unit, 1 for a version 2
\* log without one, and 0 for a version 1 log.
C24_LogSunitBytes ==
    [][Filling =>
        sb'.sb_logsunit =
            IF sb_feat.log_version # 2 THEN 0
            ELSE IF value["L_SUNIT"] = 0 THEN 1
            ELSE value["L_SUNIT"] * value["B_SIZE"]]_vars
C24_Witness ==
    /\ pc = "write" /\ sb_feat.log_version = 2 /\ sb.sb_logsunit = 65536
    /\ value["B_SIZE"] = 4096
C24_WitnessNone ==
    pc = "write" /\ sb_feat.log_version = 2 /\ sb.sb_logsunit = 1
C24_WitnessV1 == pc = "write" /\ sb_feat.log_version = 1

-----------------------------------------------------------------------------
(* The geometry during the write phase *)

\* C25: from the first write to a device until exit no option or geometry
\* value changes (the AG size and the log stripe unit in particular), so
\* that every AG is written from the geometry that was printed.
C25_GeometryFrozen ==
    [][geo.writes # <<>>
        => /\ value' = value
           /\ geo'.dblocks = geo.dblocks /\ geo'.logblocks = geo.logblocks
           /\ geo'.logstart = geo.logstart]_vars
\* ... from the printing of the geometry on
C25_PrintedFrozen == [][geo.printed => value' = value]_vars

-----------------------------------------------------------------------------
(* The AG headers *)

\* the sum of the values of the function f
RECURSIVE SumOver(_)
SumOver(f) ==
    IF DOMAIN f = {} THEN 0
    ELSE LET r == CHOOSE x \in DOMAIN f : TRUE
         IN  f[r] + SumOver([x \in DOMAIN f \ {r} |-> f[x]])
AgsIn(r) == r.hi - r.lo + 1
\* the AG loop has written its headers
AgsWritten == geo.agf # {}

\* C26: the AG lengths written partition the data area: the AGF and the
\* AGI of every AG but the last give ag_size, those of the last AG give
\* data_blocks - (ag_count - 1) * ag_size, every length is positive and
\* no more than ag_size, and the lengths add up to data_blocks.
C26_AgLengthsPartition ==
    AgsWritten
        => /\ \A r \in geo.agf :
                /\ r.hdr.agi_length = r.hdr.agf_length
                /\ r.hdr.agf_length =
                       IF r.hi = sb.sb_agcount - 1
                       THEN sb.sb_dblocks - (sb.sb_agcount - 1) * sb.sb_agblocks
                       ELSE sb.sb_agblocks
                /\ 0 < r.hdr.agf_length /\ r.hdr.agf_length <= sb.sb_agblocks
           /\ SumOver([r \in geo.agf |-> AgsIn(r)]) = sb.sb_agcount
           /\ SumOver([r \in geo.agf |-> AgsIn(r) * r.hdr.agf_length])
                 = sb.sb_dblocks

-----------------------------------------------------------------------------
(* The order of the options *)

\* a command line of two writes, none with the suffix b or s, not yet read
TwoWrites ==
    /\ pc = "getopt" /\ consumed = <<>> /\ Len(argv) = 2
    /\ \A i \in 1..2 : argv[i].str.sfx \notin {"b", "s"}
\* the end of the run of the command line, and of the one with its two
\* writes swapped
InOrder == run(State)
Swapped == run([State EXCEPT !.argv = <<argv[2], argv[1]>>])
RunRejected(e) == e.pc = "exit" /\ e.code = 1
SameGeometry(a, b) ==
    /\ a.value = b.value /\ a.sb_feat = b.sb_feat /\ a.sb = b.sb
    /\ a.geo = b.geo /\ a.pc = b.pc /\ a.code = b.code

\* C27: swapping two option writes (without b or s suffixes) changes
\* neither whether the command line is rejected nor, when it is accepted,
\* the final geometry.
C27_OrderIndependent ==
    TwoWrites
        => /\ RunRejected(InOrder) <=> RunRejected(Swapped)
           /\ ~RunRejected(InOrder) => SameGeometry(InOrder, Swapped)

-----------------------------------------------------------------------------
(* The data blocks *)

\* the size of the data section the solver starts from, in basic blocks:
\* the size the user gave or else the size of the device
InitialDataBB ==
    LET J == {j \in DOMAIN consumed : consumed[j].opt = "D_SIZE"}
    IN  IF J = {} THEN dev.d.size
        ELSE UserBytes(consumed[CHOOSE j \in J : TRUE]) \div BBSIZE

\* C28: the solver never increases data_blocks beyond the size it starts
\* from (the size the user gave, or that of the device), and the assertion
\* of the last-AG cleanup holds: the cleanup is not reached when the user
\* gave the AG count.
C28_DataBlocksNeverGrow ==
    /\ geo.dblocks * (value["B_SIZE"] \div BBSIZE) <= InitialDataBB
    /\ "!daflag" \notin geo.asserts

-----------------------------------------------------------------------------
(* The free space of the AGs *)

\* the AGs of the run r hold the internal log
HostsLog(r) ==
    value["L_INTERNAL"] # 0 /\ r.lo <= value["L_AGNUM"] /\ value["L_AGNUM"] <= r.hi
\* the first block of the internal log within its AG
LogAgbno == geo.logstart % Pow2(sb.sb_agblklog)
RecEnd(rec) == rec.ar_startblock + rec.ar_blockcount
\* the blocks of a list of records, added up
RecBlocks(recs) == SumOver([i \in DOMAIN recs |-> recs[i].ar_blockcount])
\* the free space of an AG as the AGF gives it
FreeOf(r) ==
    r.hdr.agf_length - libxfs_prealloc_blocks(State)
        - (IF HostsLog(r) THEN geo.logblocks ELSE 0)
\* the records of a root are extents of the free space of the AG: not
\* empty, one after the other, behind the headers, inside the AG and
\* outside the internal log
FreeExtents(r, recs) ==
    /\ \A i \in DOMAIN recs :
          /\ recs[i].ar_blockcount > 0
          /\ libxfs_prealloc_blocks(State) <= recs[i].ar_startblock
          /\ RecEnd(recs[i]) <= r.hdr.agf_length
          /\ HostsLog(r) => \/ RecEnd(recs[i]) <= LogAgbno
                            \/ LogAgbno + geo.logblocks <= recs[i].ar_startblock
    /\ \A i, j \in DOMAIN recs : i < j => RecEnd(recs[i]) <= recs[j].ar_startblock
RootDescribesFree(r, recs) ==
    FreeExtents(r, recs) /\ RecBlocks(recs) = r.hdr.agf_freeblks

\* C29: in every AG written the BNO root and the CNT root describe the
\* free space of the AG: their records are non-empty, disjoint extents
\* inside [prealloc_blocks, AG length) outside the internal log, and their
\* block counts add up to agf_freeblks = AG length - prealloc_blocks -
\* (log_blocks in the AG of the internal log); over all AGs agf_freeblks
\* adds up to sb_fdblocks.
C29_RootsDescribeFreeSpace ==
    AgsWritten
        => /\ \A r \in geo.agf :
                /\ r.hdr.agf_freeblks = FreeOf(r)
                /\ RootDescribesFree(r, r.hdr.bno)
                /\ RootDescribesFree(r, r.hdr.cnt)
           /\ SumOver([r \in geo.agf |-> AgsIn(r) * r.hdr.agf_freeblks])
                 = sb.sb_fdblocks

\* the order of the numbers of 32 bits in the headers, where a negative
\* number stands for itself plus 2^32
NoMore32(a, b) == IF (a < 0) = (b < 0) THEN a <= b ELSE b < 0
\* the longest of a list of records, 0 for none
Longest(recs) ==
    IF recs = <<>> THEN 0
    ELSE LET C == {recs[i].ar_blockcount : i \in DOMAIN recs}
         IN  CHOOSE c \in C : \A d \in C : NoMore32(d, c)
ByCount(recs) ==
    \A i, j \in DOMAIN recs :
        i < j => NoMore32(recs[i].ar_blockcount, recs[j].ar_blockcount)
SameRecords(a, b) ==
    /\ Len(a) = Len(b)
    /\ {a[i] : i \in DOMAIN a} = {b[i] : i \in DOMAIN b}

\* C30: in every AG written agf_longest is the block count of the longest
\* record of the BNO root (0 when it has none), and the CNT root lists the
\* records of the BNO root in non-decreasing order of block count.
C30_LongestAndCntOrder ==
    AgsWritten
        => \A r \in geo.agf :
              /\ r.hdr.agf_longest = Longest(r.hdr.bno)
              /\ SameRecords(r.hdr.cnt, r.hdr.bno)
              /\ ByCount(r.hdr.cnt)

====
